---- MODULE Spec2Model ----
(***************************************************************************)
(* Model of the screenshot API's resource management: the shared browser   *)
(* (services/browser.ts: getBrowser, captureScreenshot,                    *)
(* captureScreenshotOnce, closeBrowser, isBrowserHealthy) and the          *)
(* in-memory cache (services/cache.ts).  Both files are part of            *)
(* src/unnamed/part_003; "browser.ts:n" and "cache.ts:n" below are line n  *)
(* of that file, "index.ts:n" is line n of src/src/index.ts.  The rate     *)
(* limiter and the error classes are in src/unnamed/part_001, the route    *)
(* POST /screenshot in src/unnamed/part_000, the cache key and the         *)
(* artifact id in src/src/utils/hash.ts ("hash.ts:n").                     *)
(*                                                                         *)
(* JavaScript runs one synchronous run at a time; a run ends at an await.  *)
(* Every action below is one such run: the resumption of an await followed *)
(* by the code up to the next await.  How long an awaited engine operation *)
(* takes, and whether it fails, is the environment's choice.               *)
(***************************************************************************)
EXTENDS Integers, Sequences, FiniteSets, TLC

VARIABLES
    browser,      \* browser.ts:30  the singleton handle, 0 = null
    browserLock,  \* browser.ts:31  the caller whose launch promise is stored, or NoLock
    engine,       \* state of every engine instance chromium.launch ever produced
    iife,         \* per caller: position of the launch closure (browser.ts:49-76) it started
    acq,          \* per caller: the promise getBrowser() returned to it
    pc,           \* per process: the await it is suspended on
    req,          \* per request: the ScreenshotRequest options
    attempt,      \* browser.ts:179  loop variable of captureScreenshot
    started,      \* per request: number of captureScreenshotOnce calls made
    invCount,     \* per request: number of times the restart block (browser.ts:189-193) ran
    acqInv,       \* per request: invCount when the current attempt called getBrowser
    acqSaw,       \* per request: the value of `browser` that call read
    invEng,       \* per process: the engine whose close() it awaits
    lastError,    \* browser.ts:177
    sess,         \* per request: context/page of the current attempt (browser.ts:209-210)
    result,       \* per request: the buffer captureScreenshot resolved with
    scen,         \* the scenario: which requests run and how varied their inputs are
    lastHealth,   \* the last GET /health: what it found when called and what it answered
    exited,       \* process.exit(0) has run (index.ts:191)
    everSettled,  \* some chromium.launch() has resolved or rejected (history)
    now,          \* Date.now(), in model time units
    cache,        \* cache.ts:491  the Map
    lastPut,      \* per key: time and data of the last setCache (history)
    lastGet,      \* the last getCache call and what it returned
    lastStats,    \* the last getCacheStats call and what it returned
    rateLimitStore, \* rateLimiter.ts:204  per client, the recorded timestamps
    lastRL,       \* the last rateLimiter run: what it read, decided and answered
    seenRL,       \* per client: remaining and admission of its previous rateLimiter run
    admitted,     \* per client: timestamps of its admitted requests (history)
    fp,           \* two requests and the cache keys generateCacheKey gave them
    route,        \* per request: what the route handler has read and done so far
    resp,         \* per request: the response the client received
    files,        \* storage.ts: the ids whose image file is written
    issued,       \* number of ids generateScreenshotId has produced
    arrivals,     \* number of requests that have arrived at POST /screenshot
    passed,       \* the cache keys of the captures that resolved with a valid PNG (history)
    thrown        \* two failures thrown in the request pipeline and the answers to them

engineVars == <<browser, browserLock, engine, iife, acq>>
captureVars == <<req, attempt, started, invCount, acqInv, acqSaw, lastError, sess, result>>
healthVars == <<scen, lastHealth, everSettled>>
cacheVars == <<now, cache, lastPut, lastGet, lastStats>>
rateVars == <<rateLimitStore, lastRL, seenRL, admitted>>
routeVars == <<fp, route, resp, files, issued, arrivals, passed, thrown>>
vars == <<browser, browserLock, engine, iife, acq, pc, req, attempt, started,
          invCount, acqInv, acqSaw, invEng, lastError, sess, result, scen,
          lastHealth, exited, everSettled, now, cache, lastPut, lastGet, lastStats,
          rateLimitStore, lastRL, seenRL, admitted, fp, route, resp, files,
          issued, arrivals, passed, thrown>>

----------------------------------------------------------------------------
(* Bounds of the model *)

MaxEngines == 3
MaxTime == 7
RouteMaxTime == 4

Requests == {"r1", "r2"}
Health == "health"
Shut == "shutdown"
Shut2 == "shutdown2"
Signals == {Shut, Shut2}
Callers == Requests \cup {Health}
Procs == Callers \cup Signals
NoLock == "nolock"
Engines == 1..MaxEngines

----------------------------------------------------------------------------
(* Program constants *)

\* browser.ts:176  const maxRetries = 2
maxRetries == 2

\* config.ts:28  cacheTtl, in model time units
cacheTtl == 2

\* browser.ts:267  the PNG signature
pngSignature == <<137, 80, 78, 71, 13, 10, 26, 10>>

----------------------------------------------------------------------------
(* Error messages.  A message is a sequence of text pieces, cut so that    *)
(* every pattern the code searches for is one whole piece; String.includes *)
(* is membership of the pattern among the pieces.                          *)

Includes(msg, piece) == \E i \in DOMAIN msg : msg[i] = piece

Hosts == {"plain", "closedhost"}

\* Scenarios.  "duo": two concurrent requests for a plain URL without ad
\* blocking, one failure of each class.  "solo": one request with every
\* option and every failure the model knows.  "route": one client whose
\* requests go through POST /screenshot one after the other.  "race": two
\* requests in POST /screenshot at the same time.
Full == scen = "solo"
ActiveRequests == IF scen \in {"duo", "race"} THEN Requests ELSE {"r1"}

\* How far the clock runs
Horizon == IF scen = "route" THEN RouteMaxTime ELSE MaxTime
HostChoices == IF Full THEN Hosts ELSE {"plain"}
AdChoices == IF Full THEN BOOLEAN ELSE {FALSE}
CloseFailChoices == IF Full THEN BOOLEAN ELSE {FALSE}

hostname(h) ==
    IF h = "closedhost" THEN <<"closed", ".example.com">> ELSE <<"example.com">>

url(h) == <<"https://">> \o hostname(h) \o <<"/">>

NoError == [kind |-> "none", msg |-> <<>>]

\* What the engine reports when a page, context or browser went away
TargetClosedError ==
    [kind |-> "engineClosed",
     msg |-> <<"Target page", ", context or browser has been ", "closed">>]

ProtocolError ==
    [kind |-> "protocol",
     msg |-> <<"Protocol error", " (Page.captureScreenshot): Unable to capture screenshot">>]

LaunchError ==
    [kind |-> "launch",
     msg |-> <<"browserType.launch: ", "Executable doesn't exist">>]

\* Raw navigation failures of page.goto; the engine appends the URL
NavRaw(kind, h) ==
    CASE kind = "dns" ->
           <<"page.goto: ", "net::", "ERR_NAME_NOT_RESOLVED", " at ">> \o url(h)
      [] kind = "refused" ->
           <<"page.goto: ", "net::", "ERR_CONNECTION_REFUSED", " at ">> \o url(h)
      [] kind = "navTimeout" ->
           <<"page.goto: ", "Timeout", " 30000ms exceeded.">>
      [] kind = "ssl" ->
           <<"page.goto: ", "net::", "ERR_SSL", "_PROTOCOL_ERROR at ">> \o url(h)
      [] OTHER -> <<>>

NavKinds == {"dns", "refused", "navTimeout", "ssl"}
NavChoices == IF Full THEN NavKinds ELSE {"dns"}

\* browser.ts:230-243  the catch block around page.goto
NavClassify(kind, raw, h) ==
    IF Includes(raw, "ERR_NAME_NOT_RESOLVED")
    THEN [kind |-> kind, msg |-> <<"Could not resolve domain: ">> \o hostname(h)]
    ELSE IF Includes(raw, "ERR_CONNECTION_REFUSED")
    THEN [kind |-> kind, msg |-> <<"Connection refused by ">> \o hostname(h)]
    ELSE IF Includes(raw, "ERR_CONNECTION_TIMED_OUT") \/ Includes(raw, "Timeout")
    THEN [kind |-> kind, msg |-> <<"Timeout", " navigating to ">> \o url(h)]
    ELSE [kind |-> kind, msg |-> raw]

EmptyBufferError ==
    [kind |-> "validate", msg |-> <<"Screenshot capture returned empty buffer">>]

InvalidPngError ==
    [kind |-> "validate", msg |-> <<"Screenshot capture returned invalid PNG data">>]

CloseError == [kind |-> "cleanup", msg |-> <<"close failed">>]

\* The failures the retry policy is meant for (spec 4.4, browser.ts:186)
RetryKinds == {"engineClosed", "protocol"}

\* browser.ts:187  the retry test on the message text
Retryable(msg) ==
    Includes(msg, "closed") \/ Includes(msg, "Target page") \/ Includes(msg, "Protocol error")

----------------------------------------------------------------------------
(* Buffers page.screenshot may produce *)

GoodPng == pngSignature \o <<1>>
BadSigPng == <<137, 80, 78, 71, 13, 10, 26, 11, 1>>
ShortBuf == <<137, 80>>
Buffers == {GoodPng, BadSigPng, ShortBuf, <<>>}
BufferChoices ==
    IF Full THEN Buffers
    ELSE IF scen = "route" THEN {GoodPng, BadSigPng, <<>>}
    ELSE {GoodPng}

\* browser.ts:269  pngSignature.every((byte, i) => bufferArray[i] === byte)
isValidPng(buf) ==
    \A i \in DOMAIN pngSignature : i <= Len(buf) /\ buf[i] = pngSignature[i]

NoValidation(buf) == [ok |-> TRUE, buf |-> buf, err |-> NoError]

\* browser.ts:261-276  validation of the captured buffer
Validate(buf) ==
    IF Len(buf) = 0 THEN [ok |-> FALSE, buf |-> <<>>, err |-> EmptyBufferError]
    ELSE IF ~isValidPng(buf) THEN [ok |-> FALSE, buf |-> <<>>, err |-> InvalidPngError]
    ELSE [ok |-> TRUE, buf |-> buf, err |-> NoError]

Failure(e) == [ok |-> FALSE, buf |-> <<>>, err |-> e]
NoOutcome == [ok |-> FALSE, buf |-> <<>>, err |-> NoError]

----------------------------------------------------------------------------
(* The engine *)

\* Browser.isConnected()
IsConnected(e) == engine[e] \in {"connected", "closing"}

\* An engine process that is alive
Running(e) == engine[e] \in {"connected", "closing"}

\* An engine process that has ended, or never came up
Down(e) == engine[e] = "down"

\* Browser.close(): the call; the engine exits later (EngineExit)
CloseCall(eng, e) ==
    IF eng[e] = "connected" THEN [eng EXCEPT ![e] = "closing"] ELSE eng

\* The launches in flight: chromium.launch() called and not yet settled
inFlight == {e \in Engines : engine[e] = "launching"}

\* Engine names are reused: a name is free when no engine bears it, or the
\* engine that did has ended and nothing in the process still refers to it.
\* c is the caller about to launch (its finished attempt no longer counts),
\* b the value of `browser`.
Referenced(e, c, b) ==
    \/ b = e
    \/ \E d \in Requests \ {c} : sess[d].eng = e
    \/ \E p \in Procs \ {c} : invEng[p] = e
    \/ \E d \in Callers \ {c} : acq[d].eng = e \/ iife[d].eng = e

FreeNames(c, b) ==
    {e \in Engines : engine[e] \in {"none", "down"} /\ ~Referenced(e, c, b)}

NewName(c, b) == CHOOSE e \in FreeNames(c, b) : \A f \in FreeNames(c, b) : e <= f

\* chromium.launch() is called: a new engine starts launching
LaunchCall(eng, c, b) == [eng EXCEPT ![NewName(c, b)] = "launching"]

NoAcq == [st |-> "none", on |-> NoLock, eng |-> 0, err |-> NoError, first |-> FALSE]
IdleIife == [pc |-> "idle", eng |-> 0]

LockIgnored(lock) == FALSE

LockNotStored(c) == NoLock

\* browser.ts:49  browserLock = (async () => { ... })()
LockStored(c) == c

\* browser.ts:44  if (browserLock)
LockHeld(lock) == lock # NoLock

\* browser.ts:37-79  getBrowser(), the synchronous part: b is the value of
\* `browser` the call reads.  Starting the closure runs it up to its first
\* await: the close of the old browser, or the launch.
GetBrowser(c, b) ==
    IF b # 0 /\ IsConnected(b)
    THEN /\ acq' = [acq EXCEPT ![c] = [st |-> "ok", on |-> NoLock, eng |-> b, err |-> NoError,
                                        first |-> ~everSettled]]
         /\ UNCHANGED <<browserLock, engine, iife>>
    ELSE IF LockHeld(browserLock)
    THEN /\ acq' = [acq EXCEPT ![c] = [st |-> "pending", on |-> browserLock, eng |-> 0,
                                        err |-> NoError, first |-> ~everSettled]]
         /\ UNCHANGED <<browserLock, engine, iife>>
    ELSE /\ browserLock' = LockStored(c)
         /\ acq' = [acq EXCEPT ![c] = [st |-> "pending", on |-> c, eng |-> 0,
                                        err |-> NoError, first |-> ~everSettled]]
         /\ IF b # 0
            THEN /\ engine' = CloseCall(engine, b)
                 /\ iife' = [iife EXCEPT ![c] = [pc |-> "closeOld", eng |-> b]]
            ELSE /\ FreeNames(c, b) # {}
                 /\ engine' = LaunchCall(engine, c, b)
                 /\ iife' = [iife EXCEPT ![c] = [pc |-> "launching", eng |-> NewName(c, b)]]

\* browser.ts:52-62  the closure resumes from `await browser.close()`:
\* browser = null, then chromium.launch() is called
IifeCloseResume(c) ==
    /\ ~exited
    /\ iife[c].pc = "closeOld"
    /\ Down(iife[c].eng)
    /\ FreeNames(c, 0) # {}
    /\ browser' = 0
    /\ engine' = LaunchCall(engine, c, 0)
    /\ iife' = [iife EXCEPT ![c] = [pc |-> "launching", eng |-> NewName(c, 0)]]
    /\ UNCHANGED <<browserLock, acq, pc, invEng, exited>>
    /\ UNCHANGED captureVars /\ UNCHANGED healthVars /\ UNCHANGED cacheVars /\ UNCHANGED rateVars /\ UNCHANGED routeVars

SettleOwnerOnly(c, st, e, err) ==
    [acq EXCEPT ![c] = [st |-> st, on |-> NoLock, eng |-> e, err |-> err, first |-> acq[c].first]]

\* browser.ts:46, 49-79  the promise stored in browserLock settles: everyone
\* who was handed that promise resumes with its outcome
Settle(c, st, e, err) ==
    [d \in Callers |->
        IF acq[d].st = "pending" /\ acq[d].on = c
        THEN [st |-> st, on |-> NoLock, eng |-> e, err |-> err, first |-> acq[d].first]
        ELSE acq[d]]

\* browser.ts:62-75  chromium.launch() resolves: browser = <new>, finally
\* browserLock = null; every caller awaiting this promise gets the handle
LaunchOk(c) ==
    /\ ~exited
    /\ iife[c].pc = "launching"
    /\ engine' = [engine EXCEPT ![iife[c].eng] = "connected"]
    /\ browser' = iife[c].eng
    /\ browserLock' = NoLock
    /\ acq' = Settle(c, "ok", iife[c].eng, NoError)
    /\ iife' = [iife EXCEPT ![c] = IdleIife]
    /\ everSettled' = TRUE
    /\ UNCHANGED <<pc, invEng, exited, scen, lastHealth>>
    /\ UNCHANGED captureVars /\ UNCHANGED cacheVars /\ UNCHANGED rateVars /\ UNCHANGED routeVars

\* browser.ts:62-75  chromium.launch() rejects: finally browserLock = null;
\* every caller awaiting this promise gets the rejection
LaunchFail(c) ==
    /\ ~exited
    /\ iife[c].pc = "launching"
    /\ \E err \in (IF Full THEN {LaunchError, TargetClosedError} ELSE {LaunchError}) :
           acq' = Settle(c, "err", 0, err)
    /\ engine' = [engine EXCEPT ![iife[c].eng] = "down"]
    /\ browserLock' = NoLock
    /\ iife' = [iife EXCEPT ![c] = IdleIife]
    /\ everSettled' = TRUE
    /\ UNCHANGED <<browser, pc, invEng, exited, scen, lastHealth>>
    /\ UNCHANGED captureVars /\ UNCHANGED cacheVars /\ UNCHANGED rateVars /\ UNCHANGED routeVars

\* The engine process ends after close() was called on it
EngineExit(e) ==
    /\ ~exited
    /\ engine[e] = "closing"
    /\ engine' = [engine EXCEPT ![e] = "down"]
    /\ UNCHANGED <<browser, browserLock, iife, acq, pc, invEng, exited>>
    /\ UNCHANGED captureVars /\ UNCHANGED healthVars /\ UNCHANGED cacheVars /\ UNCHANGED rateVars /\ UNCHANGED routeVars

\* The engine process dies on its own
EngineCrash(e) ==
    /\ ~exited
    /\ engine[e] = "connected"
    /\ engine' = [engine EXCEPT ![e] = "down"]
    /\ UNCHANGED <<browser, browserLock, iife, acq, pc, invEng, exited>>
    /\ UNCHANGED captureVars /\ UNCHANGED healthVars /\ UNCHANGED cacheVars /\ UNCHANGED rateVars /\ UNCHANGED routeVars

----------------------------------------------------------------------------
(* captureScreenshotOnce: one attempt *)

NoSess ==
    [eng |-> 0, ctx |-> "none", page |-> "none", todo |-> <<>>,
     pageFailed |-> FALSE, ctxFailed |-> FALSE, pageCloses |-> 0, ctxCloses |-> 0,
     waitFailed |-> FALSE, primary |-> NoOutcome, outcome |-> NoOutcome]

ContextFirst == <<"context", "page">>

\* browser.ts:280-285  the finally block closes the page, then the context
CleanupOrder == <<"page", "context">>

Created(s, what) == IF what = "page" THEN s.page # "none" ELSE s.ctx # "none"

TodoIfPage(s) == IF s.page # "none" THEN CleanupOrder ELSE <<>>

\* browser.ts:280, 283  if (page) ... if (context) ...
Todo(s) == SelectSeq(CleanupOrder, LAMBDA w : Created(s, w))

CloseErrorWins(primary, closeFailed) ==
    IF closeFailed THEN Failure(CloseError) ELSE primary

\* browser.ts:281, 284  .catch(() => {}): a failed close is discarded and the
\* attempt settles with what the try block produced
FinallyResult(primary, closeFailed) == primary

\* browser.ts:281-285  after the awaited close, failed or not, the next one
TodoAfterClose(todo, failed) == Tail(todo)

\* The finally block from its current position to its next await: the next
\* close() call, or the settling of the attempt.  <<new sess, new pc>>
Finally(s) ==
    IF s.todo = <<>>
    THEN <<[s EXCEPT !.outcome = FinallyResult(s.primary, s.pageFailed \/ s.ctxFailed)],
           "onceDone">>
    ELSE IF Head(s.todo) = "page"
    THEN <<[s EXCEPT !.page = "closing", !.pageCloses = @ + 1], "wClose">>
    ELSE <<[s EXCEPT !.ctx = "closing", !.ctxCloses = @ + 1], "wClose">>

\* The try block is left with `prim`
EnterFinally(s, prim) ==
    Finally([s EXCEPT !.primary = prim, !.todo = Todo(s)])

Alive(r) == sess[r].eng # 0 /\ IsConnected(sess[r].eng)

pipeFrame ==
    /\ UNCHANGED <<browser, browserLock, engine, iife, req, attempt, started,
                   invCount, acqInv, acqSaw, invEng, lastError, result, exited>>
    /\ UNCHANGED healthVars /\ UNCHANGED cacheVars /\ UNCHANGED rateVars /\ UNCHANGED routeVars

Leave(r, s, prim) ==
    /\ sess' = [sess EXCEPT ![r] = EnterFinally(s, prim)[1]]
    /\ pc' = [pc EXCEPT ![r] = EnterFinally(s, prim)[2]]

Goto(r, s, p) ==
    /\ sess' = [sess EXCEPT ![r] = s]
    /\ pc' = [pc EXCEPT ![r] = p]

\* browser.ts:86, 93  createContext resumes from `await getBrowser()` and
\* calls newContext; a rejected launch leaves the attempt (nothing to close)
AcquireResume(r) ==
    /\ ~exited
    /\ pc[r] = "wGetBrowser"
    /\ acq[r].st \in {"ok", "err"}
    /\ acq' = [acq EXCEPT ![r] = NoAcq]
    /\ IF acq[r].st = "ok"
       THEN Goto(r, [sess[r] EXCEPT !.eng = acq[r].eng], "wNewContext")
       ELSE Leave(r, sess[r], Failure(acq[r].err))
    /\ pipeFrame

\* browser.ts:214-215  context = await createContext(); context.newPage() is called
NewContextResume(r) ==
    /\ ~exited
    /\ pc[r] = "wNewContext"
    /\ \/ Alive(r) /\ Goto(r, [sess[r] EXCEPT !.ctx = "open"], "wNewPage")
       \/ Leave(r, sess[r], Failure(TargetClosedError))
    /\ UNCHANGED acq /\ pipeFrame

\* browser.ts:215-226  page = await context.newPage(); then the ad blocking
\* route is installed if requested, else page.goto is called
NewPageResume(r) ==
    /\ ~exited
    /\ pc[r] = "wNewPage"
    /\ \/ Alive(r) /\ Goto(r, [sess[r] EXCEPT !.page = "open"],
                           IF req[r].blockAds THEN "wRoute" ELSE "wGoto")
       \/ Leave(r, sess[r], Failure(TargetClosedError))
    /\ UNCHANGED acq /\ pipeFrame

\* browser.ts:218-226, 133-144  await setupAdBlocking(page); page.goto is called
RouteResume(r) ==
    /\ ~exited
    /\ pc[r] = "wRoute"
    /\ \/ Alive(r) /\ Goto(r, sess[r], "wGoto")
       \/ Leave(r, sess[r], Failure(TargetClosedError))
    /\ UNCHANGED acq /\ pipeFrame

\* browser.ts:225-247  await page.goto(): on success waitForPage is called,
\* a failure goes through the catch block's classification
GotoResume(r) ==
    /\ ~exited
    /\ pc[r] = "wGoto"
    /\ \/ Alive(r) /\ Goto(r, sess[r], "wLoad")
       \/ \E kind \in NavChoices :
            Leave(r, sess[r],
                  Failure(NavClassify(kind, NavRaw(kind, req[r].host), req[r].host)))
       \/ Leave(r, sess[r],
                Failure(NavClassify("engineClosed", TargetClosedError.msg, req[r].host)))
    /\ UNCHANGED acq /\ pipeFrame

\* What waitForLoadState or waitForTimeout rejects with
WaitError ==
    [kind |-> "wait", msg |-> <<"page.waitForLoadState: ", "Timeout", " 30000ms exceeded.">>]

\* A wait whose failure leaves the try block
WaitFatal(s, failed) ==
    IF failed THEN EnterFinally([s EXCEPT !.waitFailed = Full], Failure(WaitError))
    ELSE <<s, "wShot">>

\* browser.ts:246-259  try { await waitForPage() } catch { console.warn }:
\* failed or not, page.screenshot is called.  <<new sess, new pc>>; that the
\* wait failed is remembered (history) in the one-request scenario
AfterWait(s, failed) == <<[s EXCEPT !.waitFailed = failed /\ Full], "wShot">>

\* browser.ts:150-165, 246-259  await page.waitForLoadState(): on success the
\* settle delay starts; a failure is logged and page.screenshot is called
LoadResume(r) ==
    /\ ~exited
    /\ pc[r] = "wLoad"
    /\ \/ Alive(r) /\ Goto(r, sess[r], "wSettle")
       \/ Goto(r, AfterWait(sess[r], TRUE)[1], AfterWait(sess[r], TRUE)[2])
    /\ UNCHANGED acq /\ pipeFrame

\* browser.ts:165, 246-259  await page.waitForTimeout(500), failed or not;
\* page.screenshot is called
SettleResume(r) ==
    /\ ~exited
    /\ pc[r] = "wSettle"
    /\ \E failed \in BOOLEAN :
          /\ ~failed => Alive(r)
          /\ Goto(r, AfterWait(sess[r], failed)[1], AfterWait(sess[r], failed)[2])
    /\ UNCHANGED acq /\ pipeFrame

\* browser.ts:256-280  await page.screenshot(): the buffer is validated and
\* the finally block starts
ShotResume(r) ==
    /\ ~exited
    /\ pc[r] = "wShot"
    /\ \/ /\ Alive(r)
          /\ \E buf \in BufferChoices :
               Leave(r, sess[r], Validate(buf))
       \/ \E err \in (IF Full THEN {TargetClosedError, ProtocolError} ELSE {TargetClosedError}) :
            Leave(r, sess[r], Failure(err))
    /\ UNCHANGED acq /\ pipeFrame

\* browser.ts:280-286  an awaited page.close() or context.close() settles
CloseResume(r) ==
    /\ ~exited
    /\ pc[r] = "wClose"
    /\ \E failed \in CloseFailChoices :
         LET what == Head(sess[r].todo)
             s1 == IF what = "page"
                   THEN [sess[r] EXCEPT !.page = "closed", !.pageFailed = failed,
                                        !.todo = TodoAfterClose(@, failed)]
                   ELSE [sess[r] EXCEPT !.ctx = "closed", !.ctxFailed = failed,
                                        !.todo = TodoAfterClose(@, failed)]
         IN Goto(r, Finally(s1)[1], Finally(s1)[2])
    /\ UNCHANGED acq /\ pipeFrame

----------------------------------------------------------------------------
(* captureScreenshot: the retry loop *)

MayAttemptOneMore(a) == a <= maxRetries + 1

\* browser.ts:179  attempt <= maxRetries
MayAttempt(a) == a <= maxRetries

\* browser.ts:194, 179-181, 202  continue: attempt++, then either the next
\* captureScreenshotOnce call (up to its getBrowser call) or throw lastError.
\* b is the value of `browser`, inv the request's invalidation count
Continue(r, b, inv) ==
    /\ attempt' = [attempt EXCEPT ![r] = @ + 1]
    /\ IF MayAttempt(attempt[r] + 1)
       THEN /\ started' = [started EXCEPT ![r] = @ + 1]
            /\ acqInv' = [acqInv EXCEPT ![r] = inv]
            /\ acqSaw' = [acqSaw EXCEPT ![r] = b]
            /\ sess' = [sess EXCEPT ![r] = NoSess]
            /\ pc' = [pc EXCEPT ![r] = "wGetBrowser"]
            /\ GetBrowser(r, b)
       ELSE /\ pc' = [pc EXCEPT ![r] = "failed"]
            /\ sess' = [sess EXCEPT ![r] = NoSess]
            /\ UNCHANGED <<started, acqInv, acqSaw, browserLock, engine, iife, acq>>

\* browser.ts:175-181  captureScreenshot(options) is called
captureScreenshot(r, h, ads) ==
    /\ req' = [req EXCEPT ![r] = [host |-> h, blockAds |-> ads]]
    /\ attempt' = [attempt EXCEPT ![r] = 0]
    /\ started' = [started EXCEPT ![r] = 1]
    /\ acqInv' = [acqInv EXCEPT ![r] = invCount[r]]
    /\ acqSaw' = [acqSaw EXCEPT ![r] = browser]
    /\ sess' = [sess EXCEPT ![r] = NoSess]
    /\ pc' = [pc EXCEPT ![r] = "wGetBrowser"]
    /\ GetBrowser(r, browser)
    /\ UNCHANGED <<browser, invCount, invEng, lastError, result, exited>>

\* A capture that is called directly, outside the route
StartCapture(r) ==
    /\ ~exited
    /\ r \in ActiveRequests
    /\ pc[r] = "idle"
    /\ \E h \in HostChoices, ads \in AdChoices : captureScreenshot(r, h, ads)
    /\ UNCHANGED healthVars /\ UNCHANGED cacheVars /\ UNCHANGED rateVars /\ UNCHANGED routeVars

SkipInvalidate(b) == FALSE

\* browser.ts:190  if (browser)
MustClose(b) == b # 0

\* browser.ts:181-199  the attempt settled: return its buffer, or run the
\* catch block
Handler(r) ==
    /\ ~exited
    /\ pc[r] = "onceDone"
    /\ LET o == sess[r].outcome IN
       IF o.ok
       THEN /\ pc' = [pc EXCEPT ![r] = "done"]
            /\ result' = [result EXCEPT ![r] = o.buf]
            /\ sess' = [sess EXCEPT ![r] = NoSess]
            /\ UNCHANGED <<browser, browserLock, engine, iife, acq, attempt, started,
                           invCount, acqInv, acqSaw, invEng, lastError>>
       ELSE /\ lastError' = [lastError EXCEPT ![r] = o.err]
            /\ UNCHANGED result
            /\ IF Retryable(o.err.msg)
               THEN IF MustClose(browser)
                    THEN /\ invCount' = [invCount EXCEPT ![r] = @ + 1]
                         /\ engine' = CloseCall(engine, browser)
                         /\ invEng' = [invEng EXCEPT ![r] = browser]
                         /\ pc' = [pc EXCEPT ![r] = "wInvClose"]
                         /\ sess' = [sess EXCEPT ![r] = NoSess]
                         /\ UNCHANGED <<browser, browserLock, iife, acq, attempt,
                                        started, acqInv, acqSaw>>
                    ELSE /\ invCount' = [invCount EXCEPT ![r] = @ + 1]
                         /\ Continue(r, browser, invCount[r] + 1)
                         /\ UNCHANGED <<browser, invEng>>
               ELSE /\ pc' = [pc EXCEPT ![r] = "failed"]
                    /\ sess' = [sess EXCEPT ![r] = NoSess]
                    /\ UNCHANGED <<browser, browserLock, engine, iife, acq, attempt,
                                   started, invCount, acqInv, acqSaw, invEng>>
    /\ UNCHANGED <<req, exited>>
    /\ UNCHANGED healthVars /\ UNCHANGED cacheVars /\ UNCHANGED rateVars /\ UNCHANGED routeVars

\* browser.ts:191-194  resumes from `await browser.close()`: browser = null; continue
InvalidateResume(r) ==
    /\ ~exited
    /\ pc[r] = "wInvClose"
    /\ Down(invEng[r])
    /\ browser' = 0
    /\ invEng' = [invEng EXCEPT ![r] = 0]
    /\ Continue(r, 0, invCount[r])
    /\ UNCHANGED <<req, invCount, lastError, result, exited>>
    /\ UNCHANGED healthVars /\ UNCHANGED cacheVars /\ UNCHANGED rateVars /\ UNCHANGED routeVars

\* routes/screenshot.ts:171-232  captureScreenshot settled: the route answers
\* (or the error handler does), and the next request can arrive
Respond(r) ==
    /\ ~exited
    /\ pc[r] \in {"done", "failed"}
    /\ pc' = [pc EXCEPT ![r] = "idle"]
    /\ attempt' = [attempt EXCEPT ![r] = 0]
    /\ started' = [started EXCEPT ![r] = 0]
    /\ invCount' = [invCount EXCEPT ![r] = 0]
    /\ acqInv' = [acqInv EXCEPT ![r] = 0]
    /\ acqSaw' = [acqSaw EXCEPT ![r] = 0]
    /\ lastError' = [lastError EXCEPT ![r] = NoError]
    /\ result' = [result EXCEPT ![r] = <<>>]
    /\ req' = [req EXCEPT ![r] = [host |-> "plain", blockAds |-> FALSE]]
    /\ UNCHANGED <<browser, browserLock, engine, iife, acq, invEng, sess, exited>>
    /\ UNCHANGED healthVars /\ UNCHANGED cacheVars /\ UNCHANGED rateVars /\ UNCHANGED routeVars

----------------------------------------------------------------------------
(* The cache key (utils/hash.ts) *)

\* validators.ts (hash.ts:136-137)  an optional number that was not given
Undefined == 0

\* hash.ts:134-144  screenshotRequestSchema: the values the model draws
FieldValues ==
    [url |-> Hosts, width |-> {Undefined, 800}, height |-> {Undefined, 600},
     fullPage |-> BOOLEAN, darkMode |-> BOOLEAN, blockAds |-> BOOLEAN,
     device |-> {"desktop", "mobile"}, waitFor |-> {"load", "networkidle"},
     timeout |-> {5000, 30000}]

RequestFields == DOMAIN FieldValues

ScreenshotRequests ==
    [url : FieldValues.url, width : FieldValues.width, height : FieldValues.height,
     fullPage : FieldValues.fullPage, darkMode : FieldValues.darkMode,
     blockAds : FieldValues.blockAds, device : FieldValues.device,
     waitFor : FieldValues.waitFor, timeout : FieldValues.timeout]

NormalizedWithTimeout(request) ==
    <<"url", "width", "height", "fullPage", "darkMode", "blockAds", "device",
      "waitFor", "timeout">>

\* hash.ts:26-36  the fields of `normalized`, in the order they are written
Normalized(request) ==
    <<"url", "width", "height", "fullPage", "darkMode", "blockAds", "device", "waitFor">>

\* A property whose value is undefined is left out by JSON.stringify
Present(request, f) ==
    IF f \in {"width", "height"} THEN request[f] # Undefined ELSE TRUE

\* hash.ts:38  JSON.stringify(normalized): the "key":value members in order
Stringify(request, fields) ==
    LET member(f) == <<f, ToString(request[f])>>
        F[i \in 0..Len(fields)] ==
            IF i = 0 THEN <<>>
            ELSE IF Present(request, fields[i])
                 THEN Append(F[i - 1], member(fields[i]))
                 ELSE F[i - 1]
    IN F[Len(fields)]

\* hash.ts:39-42  the first 16 hex digits of the SHA-256 digest; the digest
\* is taken as collision-free, so it is named by the text it was made from
Digest(str) == str

\* hash.ts:23-43  generateCacheKey
generateCacheKey(request) == Digest(Stringify(request, Normalized(request)))

----------------------------------------------------------------------------
(* The cache (cache.ts) *)

\* The requests the route scenario draws: the schema's defaults for two URLs
\* (one without ad blocking), and one that differs only in its timeout
RouteRequests ==
    LET default == [url |-> "plain", width |-> Undefined, height |-> Undefined,
                    fullPage |-> FALSE, darkMode |-> FALSE, blockAds |-> TRUE,
                    device |-> "desktop", waitFor |-> "networkidle", timeout |-> 30000]
    IN {default, [default EXCEPT !.timeout = 5000],
        [default EXCEPT !.url = "closedhost", !.blockAds = FALSE]}

\* hash.ts:54-57  generateScreenshotId(): time and random bytes, taken as
\* never repeating; n is the number of ids produced so far, this one included
generateScreenshotId(n) == "a" \o ToString(n)

Keys == {generateCacheKey(q) : q \in RouteRequests}
Artifacts == {generateScreenshotId(n) : n \in 1..3}
Absent == "absent"
NoEntry == [has |-> FALSE, data |-> Absent, createdAt |-> 0, expiresAt |-> 0]
NoGet == [key |-> <<>>, at |-> 0, res |-> Absent]
NoPut == [done |-> FALSE, at |-> 0, data |-> Absent]
NoStats == [done |-> FALSE, at |-> 0, size |-> 0, keys |-> {}]

ExpiredAtOnce(entry, t) == TRUE

\* cache.ts:517, 559, 582  now > entry.expiresAt
Expired(entry, t) == t > entry.expiresAt

\* A sweep that deletes nothing
NoSweep(c, t) == c

\* cache.ts:558-562, 581-586  delete every expired entry
Sweep(c, t) ==
    [k \in Keys |-> IF c[k].has /\ Expired(c[k], t) THEN NoEntry ELSE c[k]]

cacheFrame ==
    /\ UNCHANGED <<browser, browserLock, engine, iife, acq, pc, invEng, exited>>
    /\ UNCHANGED captureVars /\ UNCHANGED healthVars /\ UNCHANGED rateVars /\ UNCHANGED routeVars

\* A put that keeps the entry the key already has
setCacheIfAbsent(k, d) ==
    /\ cache' = IF cache[k].has THEN cache
                ELSE [cache EXCEPT ![k] = [has |-> TRUE, data |-> d, createdAt |-> now,
                                           expiresAt |-> now + cacheTtl]]
    /\ lastPut' = [lastPut EXCEPT ![k] = [done |-> TRUE, at |-> now, data |-> d]]
    /\ lastGet' = NoGet
    /\ lastStats' = NoStats

\* cache.ts:496-503  setCache(key, data)
setCacheCall(k, d) ==
    /\ cache' = [cache EXCEPT ![k] =
                    [has |-> TRUE, data |-> d, createdAt |-> now,
                     expiresAt |-> now + cacheTtl]]
    /\ lastPut' = [lastPut EXCEPT ![k] = [done |-> TRUE, at |-> now, data |-> d]]
    /\ lastGet' = NoGet
    /\ lastStats' = NoStats

\* setCache called on its own
setCache(k, d) ==
    /\ ~exited
    /\ setCacheCall(k, d)
    /\ UNCHANGED now
    /\ cacheFrame

\* cache.ts:509-524  getCache(key)
getCacheCall(k) ==
    IF ~cache[k].has
    THEN /\ lastGet' = [key |-> k, at |-> now, res |-> Absent]
         /\ UNCHANGED cache
    ELSE IF Expired(cache[k], now)
    THEN /\ cache' = [cache EXCEPT ![k] = NoEntry]
         /\ lastGet' = [key |-> k, at |-> now, res |-> Absent]
    ELSE /\ lastGet' = [key |-> k, at |-> now, res |-> cache[k].data]
         /\ UNCHANGED cache

\* getCache called on its own
getCache(k) ==
    /\ ~exited
    /\ getCacheCall(k)
    /\ UNCHANGED <<now, lastPut, lastStats>>
    /\ cacheFrame

StatsOf(c, t) ==
    [done |-> TRUE, at |-> t,
     size |-> Cardinality({k \in Keys : Sweep(c, t)[k].has}),
     keys |-> {k \in Keys : Sweep(c, t)[k].has}]

\* cache.ts:552-568  getCacheStats()
getCacheStats ==
    /\ ~exited
    /\ cache' = Sweep(cache, now)
    /\ lastStats' = StatsOf(cache, now)
    /\ UNCHANGED <<now, lastPut, lastGet>>
    /\ cacheFrame

\* cache.ts:577-592  cleanupExpiredCache(), run by the interval timer
cleanupExpiredCache ==
    /\ ~exited
    /\ cache' = Sweep(cache, now)
    /\ UNCHANGED <<now, lastPut, lastGet, lastStats>>
    /\ cacheFrame

\* Date.now() advances
Tick ==
    /\ ~exited
    /\ now < Horizon
    /\ now' = now + 1
    /\ UNCHANGED <<cache, lastPut, lastGet, lastStats>>
    /\ cacheFrame

----------------------------------------------------------------------------
(* The rate limiter (middleware/rateLimiter.ts, src/unnamed/part_001:182-330; *)
(* "rateLimiter.ts:n" is line n of src/unnamed/part_001)                      *)

Ips == {"ip1", "ip2"}

\* config.ts:32  rateLimit.windowMs, in model time units
windowMs == 4

\* config.ts:33  rateLimit.maxRequests
maxRequests == 2

\* rateLimiter.ts:295, 304  the 1000 ms of a second, in model time units
secondMs == 3

NoHeaders == [limit |-> -1, remaining |-> -1, reset |-> -1]
NoSeen == [done |-> FALSE, remaining |-> 0, recorded |-> FALSE]
NoRL ==
    [done |-> FALSE, ip |-> "none", at |-> 0, stored |-> <<>>, hist |-> <<>>,
     prev |-> NoSeen, allowed |-> FALSE,
     remaining |-> 0, resetIn |-> 0, headers |-> NoHeaders, status |-> 0,
     retryAfter |-> -1, recordedAt |-> -1]

\* Math.max, Math.min(...timestamps), Math.ceil(a / b)
Max(a, b) == IF a >= b THEN a ELSE b
MinOf(ts) == CHOOSE t \in {ts[i] : i \in DOMAIN ts} : \A i \in DOMAIN ts : t <= ts[i]
RoundedDown(a, b) == a \div b

Ceil(a, b) == -((-a) \div b)

NeverPruned(timestamps, windowStart) == timestamps

\* rateLimiter.ts:233-235  cleanupTimestamps
cleanupTimestamps(timestamps, windowStart) ==
    SelectSeq(timestamps, LAMBDA ts : ts > windowStart)

\* rateLimiter.ts:241-267  checkRateLimit(ip), t is what Date.now() returns
checkRateLimit(ip, t) ==
    LET timestamps == cleanupTimestamps(rateLimitStore[ip], t - windowMs)
        count == Len(timestamps)
    IN [allowed |-> count < maxRequests,
        remaining |-> Max(0, maxRequests - count),
        resetIn |-> IF Len(timestamps) > 0
                    THEN MinOf(timestamps) + windowMs - t
                    ELSE windowMs]

\* A recordRequest that pushes the timestamp twice
recordTwice(ip, t) ==
    Append(Append(cleanupTimestamps(rateLimitStore[ip], t - windowMs), t), t)

\* rateLimiter.ts:272-281  recordRequest(ip): the new list of the client
recordRequest(ip, t) ==
    Append(cleanupTimestamps(rateLimitStore[ip], t - windowMs), t)

\* rateLimiter.ts:293-295  the X-RateLimit-* headers
Headers(chk) ==
    [limit |-> maxRequests, remaining |-> chk.remaining,
     reset |-> Ceil(chk.resetIn, secondMs)]

\* rateLimiter.ts:304  retryAfter of the 429 body
RetryAfter(chk) == Ceil(chk.resetIn, secondMs)

\* A limiter that records the denied requests too
RecordsAlways(chk) == TRUE

\* rateLimiter.ts:297-313  if (!allowed) return ...; recordRequest(ip)
Records(chk) == chk.allowed

\* rateLimiter.ts:288-315  rateLimiter, up to `await next()`.  checkRateLimit
\* and recordRequest each read Date.now(): the clock may advance between them
rateLimiterCall(ip) ==
    LET chk == checkRateLimit(ip, now) IN
       \E d \in {0, 1} :
          /\ now + d <= Horizon
          /\ IF Records(chk)
             THEN /\ rateLimitStore' = [rateLimitStore EXCEPT ![ip] = recordRequest(ip, now + d)]
                  /\ now' = now + d
                  /\ admitted' = [admitted EXCEPT ![ip] =
                                     Append(SelectSeq(@, LAMBDA ts : ts >= now - windowMs), now + d)]
             ELSE /\ d = 0
                  /\ UNCHANGED <<rateLimitStore, now>>
                  /\ admitted' = [admitted EXCEPT ![ip] =
                                     SelectSeq(@, LAMBDA ts : ts >= now - windowMs)]
          /\ lastRL' = [done |-> TRUE, ip |-> ip, at |-> now, stored |-> rateLimitStore[ip],
                        hist |-> admitted[ip], prev |-> seenRL[ip],
                        allowed |-> chk.allowed, remaining |-> chk.remaining,
                        resetIn |-> chk.resetIn, headers |-> Headers(chk),
                        status |-> IF chk.allowed THEN 0 ELSE 429,
                        retryAfter |-> IF chk.allowed THEN -1 ELSE RetryAfter(chk),
                        recordedAt |-> IF chk.allowed THEN now + d ELSE -1]
          /\ seenRL' = [seenRL EXCEPT ![ip] =
                           [done |-> TRUE, remaining |-> chk.remaining,
                            recorded |-> chk.allowed]]

\* The middleware on its own
rateLimiter(ip) ==
    /\ ~exited
    /\ rateLimiterCall(ip)
    /\ UNCHANGED <<cache, lastPut, lastGet, lastStats>>
    /\ UNCHANGED <<browser, browserLock, engine, iife, acq, pc, invEng, exited>>
    /\ UNCHANGED captureVars /\ UNCHANGED healthVars /\ UNCHANGED routeVars

\* generateCacheKey is applied to both requests
Fingerprint ==
    /\ ~fp.done
    /\ fp' = [fp EXCEPT !.done = TRUE,
                        !.ka = generateCacheKey(fp.a),
                        !.kb = generateCacheKey(fp.b)]
    /\ UNCHANGED <<browser, browserLock, engine, iife, acq, pc, invEng, exited>>
    /\ UNCHANGED captureVars /\ UNCHANGED healthVars /\ UNCHANGED cacheVars
    /\ UNCHANGED rateVars
    /\ UNCHANGED <<route, resp, files, issued, arrivals, passed, thrown>>

----------------------------------------------------------------------------
(* POST /screenshot (routes/screenshot.ts, src/unnamed/part_000:58-232;     *)
(* "screenshot.ts:n" is line n of that file) behind the rate limiter, and   *)
(* the error handler of the application (index.ts:39-110)                   *)

RouteIps == {"ip1"}

\* The requests that arrive: a client's budget and one more
MaxArrivals == maxRequests + 1

\* errorHandler.ts:18-27 (src/unnamed/part_001)  class AppError
AppError(code, message, statusCode) ==
    [kind |-> "AppError", msg |-> message, code |-> code, statusCode |-> statusCode]

\* errorHandler.ts:164-166  throwValidationError
ValidationError == AppError("VALIDATION_ERROR", <<"Validation failed">>, 400)

\* What fs.writeFile or fs.readFile rejects with
StorageError == [kind |-> "fs", msg |-> <<"ENOSPC: no space left on device, write">>]

\* index.ts:39-50  ERROR_PATTERNS.  A pattern is the set of piece sequences
\* the regular expression matches (it ignores case)
ERROR_PATTERNS ==
    << [pattern |-> {<<"timeout">>, <<"Timeout">>}, code |-> "TIMEOUT", status |-> 504,
        message |-> <<"The page took too long to load">>],
       [pattern |-> {<<"net::", "ERR_NAME_NOT_RESOLVED">>}, code |-> "INVALID_URL",
        status |-> 400, message |-> <<"Could not resolve the domain name">>],
       [pattern |-> {<<"net::", "ERR_CONNECTION_REFUSED">>}, code |-> "SCREENSHOT_FAILED",
        status |-> 502, message |-> <<"Connection refused by the target server">>],
       [pattern |-> {<<"net::", "ERR_SSL">>}, code |-> "SCREENSHOT_FAILED",
        status |-> 502, message |-> <<"SSL/TLS error when connecting to the target">>],
       [pattern |-> {<<"Navigation failed">>}, code |-> "SCREENSHOT_FAILED",
        status |-> 502, message |-> <<"Failed to navigate to the page">>] >>

\* RegExp.test: the pattern occurs somewhere in the message
Test(pattern, msg) ==
    \E p \in pattern, i \in 1..Len(msg) :
        /\ i + Len(p) - 1 <= Len(msg)
        /\ SubSeq(msg, i, i + Len(p) - 1) = p

NoResp ==
    [done |-> FALSE, status |-> 0, code |-> "none", message |-> <<>>,
     xCache |-> "none", id |-> Absent, body |-> "none"]

\* c.json(response, status) with an error payload
ErrorResponse(status, code, message) ==
    [done |-> TRUE, status |-> status, code |-> code, message |-> message,
     xCache |-> "none", id |-> Absent, body |-> "json"]

\* screenshot.ts:133-164, 199-229  the answer with the image or its URL
Success(status, xCache, id, image) ==
    [done |-> TRUE, status |-> status, code |-> "none", message |-> <<>>,
     xCache |-> xCache, id |-> id, body |-> IF image THEN "image" ELSE "json"]

\* index.ts:76-90, errorHandler.ts:95-105  for (const entry of table) { if
\* (matches) return ... }: the index of the entry the loop returns at, 0
\* when it runs to the end
RECURSIVE MatchFrom(_, _, _)
MatchFrom(table, msg, i) ==
    IF i > Len(table) THEN 0
    ELSE IF Test(table[i].pattern, msg) THEN i
    ELSE MatchFrom(table, msg, i + 1)

\* The loop that keeps going after a match and so returns at the last one
LastMatch(table, msg) ==
    LET hits == {i \in DOMAIN table : Test(table[i].pattern, msg)}
    IN IF hits = {} THEN 0 ELSE CHOOSE i \in hits : \A j \in hits : j <= i

FirstMatch(table, msg) == MatchFrom(table, msg, 1)

\* index.ts:52-110  app.onError
onError(err) ==
    IF err.kind = "AppError"
    THEN ErrorResponse(err.statusCode, err.code, err.msg)
    ELSE LET first == FirstMatch(ERROR_PATTERNS, err.msg)
         IN IF first # 0
            THEN ErrorResponse(ERROR_PATTERNS[first].status, ERROR_PATTERNS[first].code,
                               ERROR_PATTERNS[first].message)
            ELSE ErrorResponse(500, "INTERNAL_ERROR", <<"An unexpected error occurred">>)

\* errorHandler.ts:33-87  ERROR_PATTERNS of the error handler middleware: the
\* table of index.ts with two more entries behind and one in the middle
ERROR_PATTERNS_errorHandler ==
    SubSeq(ERROR_PATTERNS, 1, 4) \o
    << [pattern |-> {<<"net::", "ERR_CERT">>}, code |-> "SCREENSHOT_FAILED",
        status |-> 502, message |-> <<"Certificate error when connecting to the target">>],
       ERROR_PATTERNS[5],
       [pattern |-> {<<"Protocol error">>}, code |-> "INTERNAL_ERROR", status |-> 500,
        message |-> <<"Browser communication error">>],
       [pattern |-> {<<"blocked">>}, code |-> "BLOCKED_URL", status |-> 403,
        message |-> <<"This URL is blocked for security reasons">>] >>

\* The payload that carries the error's own text whatever the table says
RawMessage(message, errorMessage) == errorMessage

\* errorHandler.ts:102  message || errorMessage
MessageOr(message, errorMessage) == IF message # <<>> THEN message ELSE errorMessage

\* errorHandler.ts:92-113  classifyError, and the response errorHandler
\* (135-160) makes of its result
classifyError(err) ==
    LET first == FirstMatch(ERROR_PATTERNS_errorHandler, err.msg)
    IN IF first # 0
       THEN ErrorResponse(ERROR_PATTERNS_errorHandler[first].status,
                          ERROR_PATTERNS_errorHandler[first].code,
                          MessageOr(ERROR_PATTERNS_errorHandler[first].message, err.msg))
       ELSE ErrorResponse(500, "INTERNAL_ERROR", <<"An unexpected error occurred">>)

\* The longest failure text, in pieces
MaxPieces == 2

\* The pieces of the texts the engine and the libraries fail with
Pieces ==
    {"Timeout", "net::", "ERR_NAME_NOT_RESOLVED", "ERR_CONNECTION_REFUSED", "ERR_SSL",
     "ERR_CERT", "Navigation failed", "Protocol error", "blocked", "at host"}

RECURSIVE TextsOf(_)
TextsOf(n) ==
    IF n = 0 THEN {<<>>}
    ELSE LET shorter == TextsOf(n - 1)
         IN shorter \cup {Append(t, p) : t \in {u \in shorter : Len(u) = n - 1}, p \in Pieces}

\* new Error(message): an error that is no AppError; its stack starts with
\* its message
Error(message) ==
    [kind |-> "Error", msg |-> message,
     stack |-> <<"Error: ">> \o message \o <<"at captureScreenshot">>]

\* index.ts:52-110, errorHandler.ts:135-160  both handlers answer the two
\* failures
Throw ==
    /\ ~thrown.done
    /\ thrown' = [thrown EXCEPT
            !.done = TRUE,
            !.onError = <<onError(Error(thrown.a)), onError(Error(thrown.b))>>,
            !.errorHandler = <<classifyError(Error(thrown.a)), classifyError(Error(thrown.b))>>]
    /\ UNCHANGED <<fp, route, resp, files, issued, arrivals, passed>>
    /\ UNCHANGED <<browser, browserLock, engine, iife, acq, pc, invEng, exited>>
    /\ UNCHANGED captureVars /\ UNCHANGED healthVars
    /\ UNCHANGED cacheVars /\ UNCHANGED rateVars

NoRoute ==
    [ip |-> "none", admitted |-> FALSE, valid |-> FALSE, key |-> <<>>, image |-> FALSE,
     lookupAt |-> -1, found |-> Absent, putSeen |-> NoPut, captures |-> 0,
     captured |-> FALSE, error |-> NoError, id |-> Absent, filesBefore |-> {}, saved |-> FALSE,
     stored |-> FALSE]

\* The handler returned or threw: the request is over
Finish(r) ==
    /\ pc' = [pc EXCEPT ![r] = "idle"]
    /\ attempt' = [attempt EXCEPT ![r] = 0]
    /\ started' = [started EXCEPT ![r] = 0]
    /\ invCount' = [invCount EXCEPT ![r] = 0]
    /\ acqInv' = [acqInv EXCEPT ![r] = 0]
    /\ acqSaw' = [acqSaw EXCEPT ![r] = 0]
    /\ lastError' = [lastError EXCEPT ![r] = NoError]
    /\ result' = [result EXCEPT ![r] = <<>>]
    /\ req' = [req EXCEPT ![r] = [host |-> "plain", blockAds |-> FALSE]]
    /\ UNCHANGED sess

\* index.ts:160, rateLimiter.ts:288-315, screenshot.ts:104-106  a request
\* arrives: the rate limiter answers 429 or records the request and calls
\* the handler, which awaits the request body
RouteArrive(r, ip) ==
    /\ ~exited
    /\ r \in ActiveRequests
    /\ pc[r] = "idle"
    /\ arrivals < MaxArrivals
    /\ arrivals' = arrivals + 1
    /\ rateLimiterCall(ip)
    /\ IF checkRateLimit(ip, now).allowed
       THEN /\ pc' = [pc EXCEPT ![r] = "wJson"]
            /\ route' = [route EXCEPT ![r] = [NoRoute EXCEPT !.ip = ip, !.admitted = TRUE]]
            /\ resp' = [resp EXCEPT ![r] = NoResp]
       ELSE /\ route' = [route EXCEPT ![r] = [NoRoute EXCEPT !.ip = ip]]
            /\ resp' = [resp EXCEPT ![r] =
                          ErrorResponse(429, "RATE_LIMIT_EXCEEDED", <<"You've exceeded">>)]
            /\ UNCHANGED pc
    /\ UNCHANGED <<cache, lastPut, lastGet, lastStats>>
    /\ UNCHANGED <<browser, browserLock, engine, iife, acq, invEng, exited>>
    /\ UNCHANGED captureVars /\ UNCHANGED healthVars
    /\ UNCHANGED <<fp, files, issued, passed, thrown>>

\* The handler that renders whatever the cache returned
NoHit(cached) == FALSE

\* screenshot.ts:127  if (cached)
Hit(cached) == cached # Absent

\* screenshot.ts:106-171  the body is read: validation, the cache key, the
\* cache lookup; a hit is answered (or the image file is read first), a miss
\* calls captureScreenshot
JsonResume(r) ==
    /\ ~exited
    /\ pc[r] = "wJson"
    /\ \E valid \in BOOLEAN, request \in RouteRequests, image \in BOOLEAN :
         LET cacheKey == generateCacheKey(request)
             cached == IF cache[cacheKey].has /\ ~Expired(cache[cacheKey], now)
                       THEN cache[cacheKey].data ELSE Absent
             seen == [route[r] EXCEPT !.valid = TRUE, !.key = cacheKey, !.image = image,
                                      !.lookupAt = now, !.found = cached,
                                      !.putSeen = lastPut[cacheKey],
                                      !.filesBefore = files]
         IN IF ~valid
            THEN /\ resp' = [resp EXCEPT ![r] = onError(ValidationError)]
                 /\ Finish(r)
                 /\ UNCHANGED <<route, cache, lastGet>>
                 /\ UNCHANGED <<browser, browserLock, engine, iife, acq, invEng>>
            ELSE /\ getCacheCall(cacheKey)
                 /\ IF Hit(cached)
                    THEN /\ route' = [route EXCEPT ![r] = seen]
                         /\ IF image
                            THEN /\ pc' = [pc EXCEPT ![r] = "wRead"]
                                 /\ UNCHANGED resp
                            ELSE /\ pc' = [pc EXCEPT ![r] = "idle"]
                                 /\ resp' = [resp EXCEPT ![r] =
                                               Success(200, "HIT", cached, FALSE)]
                         /\ UNCHANGED <<browser, browserLock, engine, iife, acq, invEng>>
                         /\ UNCHANGED captureVars
                    ELSE /\ route' = [route EXCEPT ![r] = [seen EXCEPT !.captures = @ + 1]]
                         /\ captureScreenshot(r, request.url, request.blockAds)
                         /\ UNCHANGED resp
    /\ UNCHANGED <<now, lastPut, lastStats, exited>>
    /\ UNCHANGED healthVars /\ UNCHANGED rateVars
    /\ UNCHANGED <<fp, files, issued, arrivals, passed, thrown>>

\* screenshot.ts:135-164, storage.ts:362-376  getScreenshot settled: the
\* image if the file is there, the JSON answer if it is not, an error if
\* the read failed otherwise
ReadResume(r) ==
    /\ ~exited
    /\ pc[r] = "wRead"
    /\ pc' = [pc EXCEPT ![r] = "idle"]
    /\ IF route[r].found \in files
       THEN \E ok \in BOOLEAN :
              resp' = [resp EXCEPT ![r] =
                         IF ok THEN Success(200, "HIT", route[r].found, TRUE)
                         ELSE onError(StorageError)]
       ELSE resp' = [resp EXCEPT ![r] = Success(200, "HIT", route[r].found, FALSE)]
    /\ UNCHANGED <<browser, browserLock, engine, iife, acq, invEng, exited>>
    /\ UNCHANGED captureVars /\ UNCHANGED healthVars /\ UNCHANGED cacheVars
    /\ UNCHANGED rateVars /\ UNCHANGED <<fp, route, files, issued, arrivals, passed, thrown>>

\* screenshot.ts:171-175  captureScreenshot settled: its error goes to
\* app.onError, its buffer is given an id and saveScreenshot is called
CaptureResume(r) ==
    /\ ~exited
    /\ r \in ActiveRequests
    /\ pc[r] \in {"done", "failed"}
    /\ IF pc[r] = "failed"
       THEN /\ resp' = [resp EXCEPT ![r] = onError(lastError[r])]
            /\ route' = [route EXCEPT ![r] = [@ EXCEPT !.error = lastError[r]]]
            /\ Finish(r)
            /\ UNCHANGED <<issued, passed>>
       ELSE /\ issued' = issued + 1
            /\ passed' = IF Len(result[r]) > 0 /\ isValidPng(result[r])
                         THEN passed \cup {route[r].key} ELSE passed
            /\ route' = [route EXCEPT ![r] = [@ EXCEPT !.captured = TRUE,
                                                       !.id = generateScreenshotId(issued + 1)]]
            /\ pc' = [pc EXCEPT ![r] = "wSave"]
            /\ UNCHANGED resp
            /\ UNCHANGED captureVars
    /\ UNCHANGED <<browser, browserLock, engine, iife, acq, invEng, exited>>
    /\ UNCHANGED healthVars /\ UNCHANGED cacheVars /\ UNCHANGED rateVars
    /\ UNCHANGED <<fp, files, arrivals, thrown>>

\* A handler that stores the metadata whether the write succeeded or not
StoreAnyway(ok) == TRUE

\* screenshot.ts:177, 196  await saveScreenshot(...) comes before setCache:
\* a rejected write leaves the handler
StoreAfter(ok) == ok

\* screenshot.ts:175-231, storage.ts:348-355  saveScreenshot settled: the
\* file is written, the metadata is put in the cache and the request is
\* answered 201; or the write failed and the error goes to app.onError
SaveResume(r) ==
    /\ ~exited
    /\ pc[r] = "wSave"
    /\ \E ok \in BOOLEAN :
         /\ files' = IF ok THEN files \cup {route[r].id} ELSE files
         /\ route' = [route EXCEPT ![r] = [@ EXCEPT !.saved = ok, !.stored = StoreAfter(ok)]]
         /\ resp' = [resp EXCEPT ![r] =
                       IF ok THEN Success(201, "MISS", route[r].id, route[r].image)
                       ELSE onError(StorageError)]
         /\ IF StoreAfter(ok)
            THEN setCacheCall(route[r].key, route[r].id)
            ELSE UNCHANGED <<cache, lastPut, lastGet, lastStats>>
    /\ Finish(r)
    /\ UNCHANGED <<browser, browserLock, engine, iife, acq, invEng, exited, now>>
    /\ UNCHANGED healthVars /\ UNCHANGED rateVars
    /\ UNCHANGED <<fp, issued, arrivals, passed, thrown>>

----------------------------------------------------------------------------
(* Health check and shutdown *)

NoHealth ==
    [done |-> FALSE, live |-> FALSE, first |-> FALSE, outcome |-> "none",
     connected |-> FALSE, browser |-> FALSE, status |-> 0]

AlwaysOk(browserHealthy) == 200

\* index.ts:155  const statusCode = browserHealthy ? 200 : 503
StatusCode(browserHealthy) == IF browserHealthy THEN 200 ELSE 503

\* index.ts:136-137, browser.ts:305-307  GET /health calls isBrowserHealthy,
\* which calls getBrowser
HealthCall ==
    /\ ~exited
    /\ pc[Health] = "idle"
    /\ pc' = [pc EXCEPT ![Health] = "wGetBrowser"]
    /\ GetBrowser(Health, browser)
    /\ lastHealth' = [NoHealth EXCEPT !.live = (browser # 0 /\ IsConnected(browser)),
                                      !.first = ~everSettled]
    /\ UNCHANGED <<browser, invEng, exited, scen, everSettled>>
    /\ UNCHANGED captureVars /\ UNCHANGED cacheVars /\ UNCHANGED rateVars /\ UNCHANGED routeVars

\* browser.ts:307-311, index.ts:137-156  isBrowserHealthy resumes and answers;
\* the handler then calls getCacheStats and responds
HealthResume ==
    /\ ~exited
    /\ pc[Health] = "wGetBrowser"
    /\ acq[Health].st \in {"ok", "err"}
    /\ LET browserHealthy == acq[Health].st = "ok" /\ IsConnected(acq[Health].eng) IN
         lastHealth' = [lastHealth EXCEPT
                          !.done = TRUE,
                          !.outcome = acq[Health].st,
                          !.connected = browserHealthy,
                          !.browser = browserHealthy,
                          !.status = StatusCode(browserHealthy)]
    /\ acq' = [acq EXCEPT ![Health] = NoAcq]
    /\ pc' = [pc EXCEPT ![Health] = "idle"]
    /\ cache' = Sweep(cache, now)
    /\ lastStats' = StatsOf(cache, now)
    /\ UNCHANGED <<browser, browserLock, engine, iife, invEng, exited, now, lastPut, lastGet,
                   scen, everSettled>>
    /\ UNCHANGED captureVars /\ UNCHANGED rateVars /\ UNCHANGED routeVars

\* process.exit(0): the process and all its memory are gone; the engines,
\* which are processes of their own, stay as they are
Exit ==
    /\ exited' = TRUE
    /\ browser' = 0
    /\ browserLock' = NoLock
    /\ iife' = [c \in Callers |-> IdleIife]
    /\ acq' = [c \in Callers |-> NoAcq]
    /\ pc' = [p \in Procs |-> "exited"]
    /\ req' = [r \in Requests |-> [host |-> "plain", blockAds |-> FALSE]]
    /\ attempt' = [r \in Requests |-> 0]
    /\ started' = [r \in Requests |-> 0]
    /\ invCount' = [r \in Requests |-> 0]
    /\ acqInv' = [r \in Requests |-> 0]
    /\ acqSaw' = [r \in Requests |-> 0]
    /\ invEng' = [p \in Procs |-> 0]
    /\ lastError' = [r \in Requests |-> NoError]
    /\ sess' = [r \in Requests |-> NoSess]
    /\ result' = [r \in Requests |-> <<>>]
    /\ lastHealth' = NoHealth
    /\ cache' = [k \in Keys |-> NoEntry]
    /\ lastPut' = [k \in Keys |-> NoPut]
    /\ lastGet' = NoGet
    /\ lastStats' = NoStats
    /\ rateLimitStore' = [ip \in Ips |-> <<>>]
    /\ lastRL' = NoRL
    /\ seenRL' = [ip \in Ips |-> NoSeen]
    /\ admitted' = [ip \in Ips |-> <<>>]
    /\ route' = [r \in Requests |-> NoRoute]
    /\ resp' = [r \in Requests |-> NoResp]
    /\ UNCHANGED <<engine, scen, now, everSettled, fp, files, issued, arrivals, passed, thrown>>

\* index.ts:181-191, 194-195, browser.ts:293-296  a termination signal (p
\* is the handler run that serves it): shutdown calls
\* closeBrowser, which awaits browser.close() if there is a browser, else
\* returns, and the process exits
ShutdownCall(p) ==
    /\ ~exited
    /\ pc[p] = "idle"
    /\ IF browser # 0
       THEN /\ engine' = CloseCall(engine, browser)
            /\ invEng' = [invEng EXCEPT ![p] = browser]
            /\ pc' = [pc EXCEPT ![p] = "wClose"]
            /\ UNCHANGED <<browser, browserLock, iife, acq, exited>>
            /\ UNCHANGED captureVars /\ UNCHANGED healthVars /\ UNCHANGED cacheVars /\ UNCHANGED rateVars /\ UNCHANGED routeVars
       ELSE Exit

\* browser.ts:296-299, index.ts:188-191  closeBrowser resumes: browser = null;
\* then process.exit(0)
ShutdownResume(p) ==
    /\ ~exited
    /\ pc[p] = "wClose"
    /\ Down(invEng[p])
    /\ Exit

----------------------------------------------------------------------------
(* Specifications *)

Base ==
    /\ browser = 0
    /\ browserLock = NoLock
    /\ engine = [e \in Engines |-> "none"]
    /\ iife = [c \in Callers |-> IdleIife]
    /\ acq = [c \in Callers |-> NoAcq]
    /\ pc = [p \in Procs |-> "idle"]
    /\ req = [r \in Requests |-> [host |-> "plain", blockAds |-> FALSE]]
    /\ attempt = [r \in Requests |-> 0]
    /\ started = [r \in Requests |-> 0]
    /\ invCount = [r \in Requests |-> 0]
    /\ acqInv = [r \in Requests |-> 0]
    /\ acqSaw = [r \in Requests |-> 0]
    /\ invEng = [p \in Procs |-> 0]
    /\ lastError = [r \in Requests |-> NoError]
    /\ sess = [r \in Requests |-> NoSess]
    /\ result = [r \in Requests |-> <<>>]
    /\ lastHealth = NoHealth
    /\ exited = FALSE
    /\ everSettled = FALSE
    /\ now = 0
    /\ cache = [k \in Keys |-> NoEntry]
    /\ lastPut = [k \in Keys |-> NoPut]
    /\ lastGet = NoGet
    /\ lastStats = NoStats
    /\ rateLimitStore = [ip \in Ips |-> <<>>]
    /\ lastRL = NoRL
    /\ seenRL = [ip \in Ips |-> NoSeen]
    /\ admitted = [ip \in Ips |-> <<>>]
    /\ route = [r \in Requests |-> NoRoute]
    /\ resp = [r \in Requests |-> NoResp]
    /\ files = {}
    /\ issued = 0
    /\ arrivals = 0
    /\ passed = {}

NoPair == [done |-> FALSE, a |-> <<>>, b |-> <<>>, ka |-> <<>>, kb |-> <<>>]

NoThrown == [done |-> FALSE, a |-> <<>>, b |-> <<>>, onError |-> <<NoResp, NoResp>>,
             errorHandler |-> <<NoResp, NoResp>>]

Init == Base /\ scen = "duo" /\ fp = NoPair /\ thrown = NoThrown

SoloInit == Base /\ scen = "solo" /\ fp = NoPair /\ thrown = NoThrown

ManagerInit == Base /\ scen = "manager" /\ fp = NoPair /\ thrown = NoThrown

RouteInit == Base /\ scen = "route" /\ fp = NoPair /\ thrown = NoThrown

RaceInit == Base /\ scen = "race" /\ fp = NoPair /\ thrown = NoThrown

\* Two validated requests
KeyInit ==
    /\ Base
    /\ scen = "duo"
    /\ thrown = NoThrown
    /\ \E a \in ScreenshotRequests, b \in ScreenshotRequests :
          fp = [done |-> FALSE, a |-> a, b |-> b, ka |-> <<>>, kb |-> <<>>]

\* Captures and the engines they run on
CaptureNext ==
    \/ \E r \in Requests : StartCapture(r)
    \/ \E r \in Requests : AcquireResume(r)
    \/ \E r \in Requests : NewContextResume(r)
    \/ \E r \in Requests : NewPageResume(r)
    \/ \E r \in Requests : GotoResume(r)
    \/ \E r \in Requests : LoadResume(r)
    \/ \E r \in Requests : SettleResume(r)
    \/ \E r \in Requests : ShotResume(r)
    \/ \E r \in Requests : CloseResume(r)
    \/ \E r \in Requests : Handler(r)
    \/ \E r \in Requests : InvalidateResume(r)
    \/ \E c \in Callers : IifeCloseResume(c)
    \/ \E c \in Callers : LaunchOk(c)
    \/ \E c \in Callers : LaunchFail(c)
    \/ \E e \in Engines : EngineExit(e)
    \/ \E e \in Engines : EngineCrash(e)

\* Two concurrent captures
Next == CaptureNext

Spec == Init /\ [][Next]_vars

\* browser.ts:208-287  the awaits of a capture: each engine operation a
\* request waits for returns or fails
Resume(r) ==
    \/ AcquireResume(r)
    \/ NewContextResume(r)
    \/ NewPageResume(r)
    \/ GotoResume(r)
    \/ LoadResume(r)
    \/ SettleResume(r)
    \/ ShotResume(r)
    \/ CloseResume(r)
    \/ Handler(r)
    \/ InvalidateResume(r)

\* Two concurrent captures on engines that do not die on their own; the
\* operations on them may fail all the same
LiveNext ==
    \/ \E r \in Requests : StartCapture(r)
    \/ \E r \in Requests : Resume(r)
    \/ \E c \in Callers : IifeCloseResume(c)
    \/ \E c \in Callers : LaunchOk(c)
    \/ \E c \in Callers : LaunchFail(c)
    \/ \E e \in Engines : EngineExit(e)

\* Every engine operation returns or fails: an awaited operation resumes,
\* chromium.launch() settles, a closed engine exits
LiveSpec ==
    /\ Init /\ [][LiveNext]_vars
    /\ \A r \in Requests : WF_vars(Resume(r))
    /\ \A c \in Callers : WF_vars(IifeCloseResume(c)) /\ WF_vars(LaunchOk(c) \/ LaunchFail(c))
    /\ \A e \in Engines : WF_vars(EngineExit(e))

\* One capture with every option and every failure
SoloNext ==
    \/ CaptureNext
    \/ \E r \in Requests : RouteResume(r)
    \/ \E r \in Requests : Respond(r)

SoloSpec == SoloInit /\ [][SoloNext]_vars

\* One capture beside health checks and a shutdown
ManagerNext ==
    \/ CaptureNext
    \/ HealthCall
    \/ HealthResume
    \/ ShutdownCall(Shut)
    \/ ShutdownResume(Shut)
    \/ \E r \in Requests : Respond(r)

ManagerSpec == ManagerInit /\ [][ManagerNext]_vars

\* One capture and two termination signals
SignalNext ==
    \/ CaptureNext
    \/ \E p \in Signals : ShutdownCall(p)
    \/ \E p \in Signals : ShutdownResume(p)
    \/ \E r \in Requests : Respond(r)

SignalSpec == ManagerInit /\ [][SignalNext]_vars

\* The cache alone, with time passing
CacheNext ==
    \/ \E k \in Keys, d \in Artifacts : setCache(k, d)
    \/ \E k \in Keys : getCache(k)
    \/ getCacheStats
    \/ cleanupExpiredCache
    \/ Tick

CacheSpec == Init /\ [][CacheNext]_vars

\* Entries that are written and never read again
SweepNext ==
    \/ \E k \in Keys, d \in Artifacts : setCache(k, d)
    \/ cleanupExpiredCache
    \/ Tick

\* cache.ts:591-592  setInterval(cleanupExpiredCache, ...): the timer keeps
\* firing, and time passes
SweepSpec == Init /\ [][SweepNext]_vars /\ WF_vars(cleanupExpiredCache) /\ WF_vars(Tick)

\* The rate limiter and the clock
RateNext ==
    \/ \E ip \in Ips : rateLimiter(ip)
    \/ Tick

RateSpec == Init /\ [][RateNext]_vars

\* Requests of one client to POST /screenshot, one after the other
RouteNext ==
    \/ \E r \in Requests, ip \in RouteIps : RouteArrive(r, ip)
    \/ \E r \in Requests : JsonResume(r)
    \/ \E r \in Requests : ReadResume(r)
    \/ \E r \in Requests : CaptureResume(r)
    \/ \E r \in Requests : SaveResume(r)
    \/ \E r \in Requests : AcquireResume(r)
    \/ \E r \in Requests : NewContextResume(r)
    \/ \E r \in Requests : NewPageResume(r)
    \/ \E r \in Requests : RouteResume(r)
    \/ \E r \in Requests : GotoResume(r)
    \/ \E r \in Requests : LoadResume(r)
    \/ \E r \in Requests : SettleResume(r)
    \/ \E r \in Requests : ShotResume(r)
    \/ \E r \in Requests : CloseResume(r)
    \/ \E r \in Requests : Handler(r)
    \/ \E r \in Requests : InvalidateResume(r)
    \/ \E c \in Callers : LaunchOk(c)
    \/ \E c \in Callers : LaunchFail(c)
    \/ \E e \in Engines : EngineExit(e)
    \/ cleanupExpiredCache
    \/ Tick

RouteSpec == RouteInit /\ [][RouteNext]_vars

\* Two requests in POST /screenshot at the same time, on a healthy engine
RaceNext ==
    \/ \E r \in Requests, ip \in RouteIps : RouteArrive(r, ip)
    \/ \E r \in Requests : JsonResume(r)
    \/ \E r \in Requests : ReadResume(r)
    \/ \E r \in Requests : CaptureResume(r)
    \/ \E r \in Requests : SaveResume(r)
    \/ \E r \in Requests : AcquireResume(r)
    \/ \E r \in Requests : NewContextResume(r)
    \/ \E r \in Requests : NewPageResume(r)
    \/ \E r \in Requests : RouteResume(r)
    \/ \E r \in Requests : GotoResume(r)
    \/ \E r \in Requests : LoadResume(r)
    \/ \E r \in Requests : SettleResume(r)
    \/ \E r \in Requests : ShotResume(r)
    \/ \E r \in Requests : CloseResume(r)
    \/ \E r \in Requests : Handler(r)
    \/ \E c \in Callers : LaunchOk(c)

RaceSpec == RaceInit /\ [][RaceNext]_vars

\* The cache key of a pair of requests
\* Two failures that are no AppError, the second a piece shorter
ThrowInit ==
    /\ Base
    /\ scen = "duo"
    /\ fp = NoPair
    /\ \E a \in TextsOf(MaxPieces), b \in TextsOf(MaxPieces - 1) :
          thrown = [NoThrown EXCEPT !.a = a, !.b = b]

KeyNext == Fingerprint

KeySpec == KeyInit /\ [][KeyNext]_vars

ThrowNext == Throw

ThrowSpec == ThrowInit /\ [][ThrowNext]_vars

----------------------------------------------------------------------------
(* Properties *)

\* C1: when two or more getBrowser() calls are issued while no engine exists
\* and the first launch has not completed, exactly one engine launch is
\* performed and all these callers receive the same engine handle.
C1_SingleFlight ==
    /\ ~everSettled => Cardinality({e \in Engines : engine[e] # "none"}) <= 1
    /\ ~everSettled =>
          \A c \in Callers : acq[c].st = "pending" =>
              browserLock # NoLock /\ acq[c].on = browserLock
    /\ \A c, d \in Callers :
          acq[c].first /\ acq[d].first /\ acq[c].st = "ok" /\ acq[d].st = "ok"
              => acq[c].eng = acq[d].eng

C1_Witness ==
    \E c, d \in Callers :
        /\ c # d
        /\ acq[c].first /\ acq[c].st = "ok"
        /\ acq[d].first /\ acq[d].st = "ok"
        /\ acq[c].eng = acq[d].eng
        /\ Cardinality({e \in Engines : engine[e] # "none"}) = 1

\* C2: in every reachable state every running engine (launched, not closed)
\* is the manager's current handle, so at most one engine runs and none is
\* left running unreferenced.
C2_NoLeakedEngine ==
    \A e \in Engines : engine[e] = "connected" => browser = e

\* C3: in every reachable state, with capture requests, retry invalidations,
\* health checks and shutdown interleaved, at most one engine launch is in
\* flight.
C3_OneLaunchInFlight == Cardinality(inFlight) <= 1

C3_Witness ==
    \E c, d \in Callers :
        /\ c # d
        /\ iife[c].pc = "launching"
        /\ engine[iife[c].eng] = "launching"
        /\ acq[d].st = "pending" /\ acq[d].on = c

C5_AtMostThreeAttempts ==
    \A r \in Requests :
        /\ started[r] <= 3
        /\ attempt[r] <= 3
        /\ attempt[r] = 3 => pc[r] = "failed" /\ lastError[r].kind \in RetryKinds

C5_Witness ==
    \E r \in Requests :
        /\ pc[r] = "failed"
        /\ started[r] = 3
        /\ attempt[r] = 3
        /\ invCount[r] = 3
        /\ lastError[r].kind \in RetryKinds

\* C6: when an attempt has failed with a failure that is neither an
\* engine/session-closed nor a protocol-fault failure, the request fails at
\* once with that failure: no further attempt is started and the shared
\* handle is not invalidated.
C6_NoRetryOtherFailures ==
    [][\A r \in Requests :
          (/\ pc[r] = "onceDone"
           /\ ~sess[r].outcome.ok
           /\ sess[r].outcome.err.kind \notin RetryKinds
           /\ pc'[r] # "onceDone"
           /\ ~exited')
          => /\ pc'[r] = "failed"
             /\ lastError'[r] = sess[r].outcome.err
             /\ started'[r] = started[r]
             /\ invCount'[r] = invCount[r]
             /\ engine' = engine]_vars

\* C7: every context, and page if one was created, that an attempt created
\* has had close() called on it exactly once when the attempt returns, on
\* every exit path; what was not created is not closed.
C7_ClosedExactlyOnce ==
    \A r \in Requests :
        /\ sess[r].pageCloses <= 1
        /\ sess[r].ctxCloses <= 1
        /\ pc[r] = "onceDone" =>
              /\ IF sess[r].ctx # "none"
                 THEN sess[r].ctx = "closed" /\ sess[r].ctxCloses = 1
                 ELSE sess[r].ctxCloses = 0
              /\ IF sess[r].page # "none"
                 THEN sess[r].page = "closed" /\ sess[r].pageCloses = 1
                 ELSE sess[r].pageCloses = 0

C7_Witness ==
    \E r \in Requests :
        /\ pc[r] = "onceDone"
        /\ sess[r].ctx = "closed" /\ sess[r].ctxCloses = 1
        /\ sess[r].page = "none"
        /\ ~sess[r].outcome.ok

\* C8: in an attempt's cleanup the page is closed before the context: the
\* context's close() is never called while a page the attempt created has
\* not been closed.
C8_PageBeforeContext ==
    \A r \in Requests :
        sess[r].ctx \in {"closing", "closed"} => sess[r].page \in {"none", "closed"}

C8_Witness ==
    \E r \in Requests :
        /\ pc[r] = "wClose"
        /\ sess[r].ctx = "closing"
        /\ sess[r].page = "closed"

\* C9: a failed page or context close never changes the attempt's outcome:
\* the attempt settles with what its try block produced, and the context
\* close is still called after a failed page close.
C9_CleanupNeverMasks ==
    \A r \in Requests :
        /\ pc[r] = "onceDone" => sess[r].outcome = sess[r].primary
        /\ pc[r] = "onceDone" /\ sess[r].pageFailed /\ sess[r].ctx # "none"
              => sess[r].ctxCloses = 1

C9_Witness ==
    \E r \in Requests :
        /\ pc[r] = "onceDone"
        /\ sess[r].pageFailed
        /\ sess[r].ctxCloses = 1
        /\ sess[r].outcome.ok
        /\ sess[r].outcome.buf = GoodPng

\* C10: after setCache(k, a), a getCache(k) before the TTL has elapsed, with
\* no setCache on k in between, returns a; once the TTL has elapsed
\* getCache(k) returns absent and k is in neither the key list nor the count
\* of getCacheStats().
C10_RoundTrip ==
    /\ \A k \in Keys :
          lastGet.key = k /\ lastPut[k].done =>
              IF lastGet.at - lastPut[k].at < cacheTtl
              THEN lastGet.res = lastPut[k].data
              ELSE lastGet.res = Absent
    /\ lastStats.done =>
          /\ lastStats.size = Cardinality(lastStats.keys)
          /\ \A k \in Keys :
                lastPut[k].done /\ lastStats.at - lastPut[k].at >= cacheTtl
                    => k \notin lastStats.keys

\* C11: a cache entry is live iff now < expiry (expiry = put time + TTL):
\* getCache(k) returns the stored artifact exactly when an entry for k exists
\* and now < expiry; at or after the expiry instant it returns absent.
C11_LiveIffBeforeExpiry ==
    \A k \in Keys :
        lastGet.key = k =>
            LET live == lastPut[k].done /\ lastGet.at < lastPut[k].at + cacheTtl
            IN /\ live => lastGet.res = lastPut[k].data
               /\ ~live => lastGet.res = Absent

\* C12: with max = N every client has, in every reachable state, at most N
\* admitted requests whose timestamps lie within the current window (a
\* timestamp t is within the window iff t >= now - windowSize), and its
\* stored timestamp list never holds more than N entries.
C12_AtMostMaxInWindow ==
    \A ip \in Ips :
        /\ Len(SelectSeq(admitted[ip], LAMBDA ts : ts >= now - windowMs)) <= maxRequests
        /\ Len(rateLimitStore[ip]) <= maxRequests

\* C13: once time has advanced past windowSize since a client's oldest
\* recorded timestamp (the timestamp has left the window) the client's next
\* check is allowed; after a whole windowSize without recorded requests the
\* client has its full budget of max again.
C13_AllowedAgainAfterWindow ==
    lastRL.done /\ lastRL.stored # <<>> =>
        /\ lastRL.at - MinOf(lastRL.stored) > windowMs => lastRL.allowed
        /\ (\A i \in DOMAIN lastRL.stored : lastRL.at - lastRL.stored[i] > windowMs)
              => lastRL.allowed /\ lastRL.remaining = maxRequests

C13_Witness ==
    /\ lastRL.done
    /\ lastRL.prev.done /\ ~lastRL.prev.recorded
    /\ Len(lastRL.stored) = maxRequests
    /\ \A i \in DOMAIN lastRL.stored : lastRL.at - lastRL.stored[i] > windowMs
    /\ lastRL.allowed
    /\ lastRL.remaining = maxRequests

\* C14: while no recorded timestamp of a client leaves the window (every
\* timestamp t of its earlier admitted requests still has t >= now -
\* windowSize), the remaining value reported to the client does not increase
\* from one check to the next, is strictly smaller after a recorded request,
\* and is never negative.
C14_RemainingMonotone ==
    lastRL.done =>
        /\ lastRL.remaining >= 0
        /\ (/\ lastRL.prev.done
            /\ \A i \in DOMAIN lastRL.hist : lastRL.hist[i] >= lastRL.at - windowMs)
              => /\ lastRL.remaining <= lastRL.prev.remaining
                 /\ lastRL.prev.recorded => lastRL.remaining < lastRL.prev.remaining

\* C15: a check at time now counts exactly the stored timestamps t with
\* t >= now - windowSize and returns allowed = (count < max), remaining =
\* max(0, max - count), and resetInMs = oldest counted timestamp + windowSize
\* - now when count > 0, else windowSize.
C15_CheckCountsWindow ==
    lastRL.done =>
        LET counted == SelectSeq(lastRL.stored, LAMBDA ts : ts >= lastRL.at - windowMs)
            count == Len(counted)
        IN /\ lastRL.allowed = (count < maxRequests)
           /\ lastRL.remaining = (IF maxRequests - count > 0 THEN maxRequests - count ELSE 0)
           /\ lastRL.resetIn = (IF count > 0
                                THEN MinOf(counted) + windowMs - lastRL.at
                                ELSE windowMs)

\* C16: every admission decision, allowed or denied, sets the limit,
\* remaining and reset values as response headers; a denied request is
\* answered 429 with a retry-after hint equal to resetInMs in seconds,
\* rounded up.
C16_MetadataAlways ==
    lastRL.done =>
        /\ lastRL.headers.limit = maxRequests
        /\ lastRL.headers.remaining = lastRL.remaining
        /\ lastRL.headers.reset * secondMs >= lastRL.resetIn
        /\ (lastRL.headers.reset - 1) * secondMs < lastRL.resetIn
        /\ ~lastRL.allowed =>
              /\ lastRL.status = 429
              /\ lastRL.recordedAt = -1
              /\ lastRL.retryAfter * secondMs >= lastRL.resetIn
              /\ (lastRL.retryAfter - 1) * secondMs < lastRL.resetIn

C16_Witness ==
    /\ lastRL.done
    /\ ~lastRL.allowed
    /\ lastRL.status = 429
    /\ lastRL.resetIn % secondMs # 0
    /\ lastRL.retryAfter = (lastRL.resetIn \div secondMs) + 1
    /\ lastRL.headers.remaining = 0

\* C17: the cache key is a function of exactly url, width, height,
\* fullPage, darkMode, blockAds, device and waitFor: two requests have the
\* same key iff they agree on these eight fields, so requests that differ
\* only in timeout share a key and a difference in any of the eight fields
\* gives a different key.
C17_KeyFields ==
    fp.done =>
        ((fp.ka = fp.kb) <=>
            \A f \in RequestFields \ {"timeout"} : fp.a[f] = fp.b[f])

C17_Witness ==
    /\ fp.done
    /\ fp.a.timeout # fp.b.timeout
    /\ fp.a.width = Undefined
    /\ \A f \in RequestFields \ {"timeout"} : fp.a[f] = fp.b[f]
    /\ fp.ka = fp.kb

\* C18: a valid, admitted request that finds no entry ever stored under
\* its cache key is a miss that calls captureScreenshot exactly once and,
\* when the capture and the write succeed, is answered 201 after storing
\* exactly one new artifact, kept in the cache under its key; a valid
\* request that looks up a key stored by an earlier request before
\* cacheTtl has passed is a hit: it calls captureScreenshot not at all and
\* its answer carries the identifier that earlier request stored.
C18_MissThenHit ==
    \A r \in Requests :
        (resp[r].done /\ route[r].valid) =>
            /\ ~route[r].putSeen.done =>
                 /\ route[r].found = Absent
                 /\ route[r].captures = 1
                 /\ route[r].saved =>
                      /\ resp[r].status = 201 /\ resp[r].xCache = "MISS"
                      /\ resp[r].id = route[r].id
                      /\ route[r].id \notin route[r].filesBefore
                      /\ files = route[r].filesBefore \cup {route[r].id}
                      /\ lastPut[route[r].key].done
                      /\ lastPut[route[r].key].data = route[r].id
            /\ (route[r].putSeen.done
                  /\ route[r].lookupAt < route[r].putSeen.at + cacheTtl) =>
                 /\ route[r].found = route[r].putSeen.data
                 /\ route[r].captures = 0
                 /\ files = route[r].filesBefore
                 /\ lastPut[route[r].key] = route[r].putSeen
                 /\ resp[r].status = 200 =>
                      /\ resp[r].xCache = "HIT"
                      /\ resp[r].id = route[r].putSeen.data

C18_Witness ==
    /\ arrivals = 2
    /\ pc["r1"] = "idle"
    /\ resp["r1"].done /\ resp["r1"].status = 200 /\ resp["r1"].body = "json"
    /\ route["r1"].putSeen.done
    /\ route["r1"].lookupAt < route["r1"].putSeen.at + cacheTtl
    /\ route["r1"].captures = 0
    /\ resp["r1"].id = route["r1"].putSeen.data
    /\ resp["r1"].id \in files
    /\ Cardinality(files) = 1

\* C19: a request whose capture was rejected by the validation of the
\* payload (empty, or not beginning with the PNG signature) is answered
\* with code SCREENSHOT_FAILED and status 502.
C19_ValidationIsCaptureFailed ==
    \A r \in Requests :
        (resp[r].done /\ route[r].error.kind = "validate") =>
            resp[r].code = "SCREENSHOT_FAILED" /\ resp[r].status = 502

\* C20: a request whose capture failed writes no file and no cache entry,
\* and every key that holds a cache entry is the key of a request whose
\* capture resolved with a payload that passes the validation.
C20_FailedCaptureStoresNothing ==
    /\ \A r \in Requests :
         (resp[r].done /\ route[r].error.kind # "none") =>
             /\ ~route[r].saved /\ ~route[r].stored
             /\ route[r].id = Absent
             /\ files = route[r].filesBefore
             /\ lastPut[route[r].key] = route[r].putSeen
    /\ \A k \in Keys : cache[k].has => k \in passed
    /\ \A k \in Keys : lastPut[k].done => k \in passed

C20_Witness ==
    /\ resp["r1"].done
    /\ route["r1"].error.kind = "validate"
    /\ route["r1"].captures = 1
    /\ ~cache[route["r1"].key].has
    /\ \E k \in Keys : cache[k].has
    /\ Cardinality(files) = 1

\* C21: when chromium.launch() rejects, every caller that was handed the
\* promise of that launch resumes with the same error, `browser` is null,
\* browserLock is null and no launch is in flight; and a getBrowser() call
\* never returns an earlier failure: made when there is no handle and no
\* lock, it starts a launch of its own.
C21_LaunchFailure ==
    [][\A c \in Callers :
         /\ (~exited' /\ iife[c].pc = "launching" /\ iife'[c].pc = "idle"
               /\ engine'[iife[c].eng] = "down") =>
               /\ acq[c].st = "pending" /\ acq[c].on = c
               /\ \A d \in Callers :
                    (acq[d].st = "pending" /\ acq[d].on = c) =>
                        /\ acq'[d].st = "err"
                        /\ acq'[d].err = acq'[c].err
                        /\ acq'[d].err # NoError
               /\ browser' = 0
               /\ browserLock' = NoLock
               /\ \A e \in Engines : engine'[e] # "launching"
         /\ (~exited' /\ acq[c].st = "none" /\ acq'[c].st # "none") =>
               /\ acq'[c].st \in {"ok", "pending"}
               /\ (browser = 0 /\ browserLock = NoLock) =>
                    /\ acq'[c].st = "pending" /\ acq'[c].on = c
                    /\ browserLock' = c
                    /\ iife'[c].pc = "launching"
                    /\ engine[iife'[c].eng] # "launching"
                    /\ engine'[iife'[c].eng] = "launching"
      ]_vars

C21_Witness ==
    /\ acq["r1"].st = "err" /\ acq["r2"].st = "err"
    /\ acq["r1"].err = acq["r2"].err
    /\ acq["r1"].err = LaunchError
    /\ browser = 0 /\ browserLock = NoLock
    /\ \A e \in Engines : engine[e] # "launching"

\* C22: isBrowserHealthy() returns true iff, when it was called, `browser`
\* held a handle and that handle reported isConnected().
C22_HealthyIffHandleAtCall ==
    lastHealth.done => (lastHealth.browser <=> lastHealth.live)

\* C23: GET /health answers 200 with browser = true whenever getBrowser()
\* gave it a connected engine, the existing one or one it launched, also as
\* the first request after start-up; it answers 503 with browser = false
\* only when the launch failed or the engine it got is not connected.
C23_HealthEndpoint ==
    lastHealth.done =>
        /\ lastHealth.status \in {200, 503}
        /\ lastHealth.status = 200 <=> lastHealth.browser
        /\ (lastHealth.outcome = "ok" /\ lastHealth.connected) => lastHealth.status = 200
        /\ lastHealth.status = 503 =>
              lastHealth.outcome = "err" \/ ~lastHealth.connected
        /\ lastHealth.outcome \in {"ok", "err"}

C23_Witness ==
    /\ lastHealth.done
    /\ lastHealth.first /\ ~lastHealth.live
    /\ lastHealth.status = 200 /\ lastHealth.browser
    /\ \A r \in Requests : pc[r] = "idle" /\ started[r] = 0
    /\ browser # 0 /\ engine[browser] = "connected"

\* C24: a second shutdown(), made while the first is still running, has no
\* further effect: close() is called on the engine handle at most once.
C24_ShutdownClosesOnce ==
    \A p, q \in Signals :
        (p # q /\ pc[p] = "wClose" /\ pc[q] = "wClose") => invEng[p] # invEng[q]

\* C25: the manager's state only moves along Uninitialized -> Launching ->
\* Ready -> Closing -> Closed, Ready -> Launching (a dead handle is found),
\* Launching -> Uninitialized (the launch failed) and Ready -> Uninitialized
\* (the retry block dropped the handle); Closed is never left.  The state
\* is Closed once the process has exited, Closing while a closeBrowser()
\* awaits the close it issued, Launching while browserLock is set, Ready
\* while `browser` holds a handle, Uninitialized otherwise; a shutdown that
\* finds nothing to close goes from Uninitialized to Closed at once.
C25_Lifecycle ==
    [][LET State(ex, p, lock, b) ==
               IF ex THEN "Closed"
               ELSE IF \E q \in Signals : p[q] = "wClose" THEN "Closing"
               ELSE IF lock # NoLock THEN "Launching"
               ELSE IF b # 0 THEN "Ready"
               ELSE "Uninitialized"
           from == State(exited, pc, browserLock, browser)
           to == State(exited', pc', browserLock', browser')
       IN \/ from = to
          \/ <<from, to>> \in {<<"Uninitialized", "Launching">>, <<"Launching", "Ready">>,
                               <<"Ready", "Closing">>, <<"Closing", "Closed">>,
                               <<"Ready", "Launching">>, <<"Launching", "Uninitialized">>,
                               <<"Ready", "Uninitialized">>, <<"Uninitialized", "Closed">>}
      ]_vars

\* C26: a request whose capture ended with a navigation failure that
\* captureScreenshotOnce classified is answered with the matching kind:
\* name resolution INVALID_URL 400, connection refused SCREENSHOT_FAILED
\* 502, navigation timeout TIMEOUT 504.
C26_NavigationKinds ==
    \A r \in Requests :
        resp[r].done =>
            /\ route[r].error.kind = "dns" =>
                 resp[r].code = "INVALID_URL" /\ resp[r].status = 400
            /\ route[r].error.kind = "refused" =>
                 resp[r].code = "SCREENSHOT_FAILED" /\ resp[r].status = 502
            /\ route[r].error.kind = "navTimeout" =>
                 resp[r].code = "TIMEOUT" /\ resp[r].status = 504


\* C27: the failure classifier is first-match-wins over its ordered table: for
\* every failure text that comes with no typed application error, the answer
\* carries the code, the status and the message of the first table entry whose
\* pattern matches, whatever later entries match too, and a text that matches
\* no entry is answered INTERNAL_ERROR with status 500.  Checked for the
\* table of app.onError and for the table of the errorHandler middleware.
C27_FirstMatchWins ==
    LET Expected(table, t) ==
            LET hits == {i \in DOMAIN table : Test(table[i].pattern, t)}
                least == CHOOSE i \in hits : \A j \in hits : i <= j
            IN IF hits = {}
               THEN [status |-> 500, code |-> "INTERNAL_ERROR"]
               ELSE [status |-> table[least].status, code |-> table[least].code,
                     message |-> table[least].message]
        Agrees(answer, exp) ==
            /\ answer.done
            /\ answer.status = exp.status
            /\ answer.code = exp.code
            /\ "message" \in DOMAIN exp => answer.message = exp.message
    IN thrown.done =>
          /\ Agrees(thrown.onError[1], Expected(ERROR_PATTERNS, thrown.a))
          /\ Agrees(thrown.onError[2], Expected(ERROR_PATTERNS, thrown.b))
          /\ Agrees(thrown.errorHandler[1], Expected(ERROR_PATTERNS_errorHandler, thrown.a))
          /\ Agrees(thrown.errorHandler[2], Expected(ERROR_PATTERNS_errorHandler, thrown.b))

\* A text that matches the first entry behind a later one is answered TIMEOUT
\* by both handlers, one that matches the last entry of the middleware's
\* table only is answered 500 by app.onError and 403 by the middleware
C27_Witness ==
    /\ thrown.done
    /\ thrown.a = <<"Navigation failed", "Timeout">>
    /\ thrown.onError[1].code = "TIMEOUT"
    /\ thrown.errorHandler[1].status = 504
    /\ thrown.b = <<"blocked">>
    /\ thrown.onError[2].status = 500
    /\ thrown.errorHandler[2].status = 403


\* C28: for a failure that is no typed application error the payload sent to
\* the client is determined by the matched table entry (or the default)
\* alone: two failures that match the same entry and differ in their text and
\* stack are answered with identical payloads, and no piece of the failure's
\* text or stack occurs in the payload.  Checked for app.onError and for the
\* errorHandler middleware.
C28_PayloadFromEntryOnly ==
    LET Entry(table, t) ==
            LET hits == {i \in DOMAIN table : Test(table[i].pattern, t)}
            IN IF hits = {} THEN 0 ELSE CHOOSE i \in hits : \A j \in hits : i <= j
        Raw(t) == {t[i] : i \in DOMAIN t} \cup {Error(t).stack[i] : i \in DOMAIN Error(t).stack}
        Clean(answer, t) ==
            /\ {answer.message[i] : i \in DOMAIN answer.message} \cap Raw(t) = {}
            /\ answer.id = Absent
            /\ answer.xCache = "none"
    IN thrown.done =>
          /\ Entry(ERROR_PATTERNS, thrown.a) = Entry(ERROR_PATTERNS, thrown.b)
                => thrown.onError[1] = thrown.onError[2]
          /\ Entry(ERROR_PATTERNS_errorHandler, thrown.a)
                  = Entry(ERROR_PATTERNS_errorHandler, thrown.b)
                => thrown.errorHandler[1] = thrown.errorHandler[2]
          /\ Clean(thrown.onError[1], thrown.a) /\ Clean(thrown.onError[2], thrown.b)
          /\ Clean(thrown.errorHandler[1], thrown.a)
          /\ Clean(thrown.errorHandler[2], thrown.b)

\* Two different texts that match the timeout entry get one payload
C28_Witness ==
    /\ thrown.done
    /\ thrown.a = <<"Timeout", "at host">>
    /\ thrown.b = <<"Timeout">>
    /\ thrown.onError[1] = thrown.onError[2]
    /\ thrown.errorHandler[1] = thrown.errorHandler[2]
    /\ thrown.onError[1].message = <<"The page took too long to load">>


\* C29: the put is unconditional and the last writer wins; nothing makes a
\* second request for a cache key wait for the first.  Every put of POST
\* /screenshot leaves the key's one entry holding the artifact of that put
\* with expiry now + TTL, whatever entry another request has put there since
\* this request's lookup, it touches no other key, and no other step changes
\* an entry; so after two requests that both missed, rendered and put, the
\* entry is that of the put that ran last.
C29_LastWriterWins ==
    [][LET Put(r) == ~route[r].stored /\ route'[r].stored
       IN /\ \A r \in Requests :
                Put(r) =>
                   /\ cache'[route[r].key] =
                         [has |-> TRUE, data |-> route[r].id, createdAt |-> now,
                          expiresAt |-> now + cacheTtl]
                   /\ \A k \in Keys \ {route[r].key} : cache'[k] = cache[k]
          /\ (\A r \in Requests : ~Put(r)) => cache' = cache]_vars

\* Both requests missed on one key, both rendered and stored their own
\* artifact, and the entry holds the artifact with the older id: the request
\* that rendered first put last
C29_Witness ==
    /\ route["r1"].stored /\ route["r2"].stored
    /\ pc["r1"] = "idle" /\ pc["r2"] = "idle"
    /\ route["r1"].key = route["r2"].key
    /\ route["r1"].found = Absent /\ route["r2"].found = Absent
    /\ route["r1"].id = generateScreenshotId(1)
    /\ route["r2"].id = generateScreenshotId(2)
    /\ resp["r1"].status = 201 /\ resp["r2"].status = 201
    /\ cache[route["r1"].key].data = route["r1"].id
    /\ Cardinality({k \in Keys : cache[k].has}) = 1


\* C30: after a retryable failure the shared handle is invalidated before
\* the next attempt starts, so that the next attempt never runs on the engine
\* the failed attempt used: when the catch block has run for a retryable
\* failure and another attempt is due, close() has been called on the engine
\* the failed attempt ran on (or that engine has ended), and when the next
\* attempt starts the shared handle is null and its getBrowser call waits for
\* a launch instead of being handed an engine that exists.
C30_InvalidatedBeforeRetry ==
    [][\A r \in Requests :
          /\ (/\ pc[r] = "onceDone"
              /\ pc'[r] # "onceDone"
              /\ ~sess[r].outcome.ok
              /\ Retryable(sess[r].outcome.err.msg)
              /\ MayAttempt(attempt[r] + 1)
              /\ sess[r].eng # 0
              /\ ~exited')
             => \/ engine[sess[r].eng] = "down"
                \/ engine'[sess[r].eng] \in {"closing", "down"}
          /\ (started[r] >= 1 /\ started'[r] = started[r] + 1)
             => /\ browser' = 0
                /\ acq'[r].st = "pending"
                /\ acq'[r].eng = 0]_vars


\* C31: the invalidation a request performs after a retryable failure closes
\* only the engine its failed attempt was using: whenever the catch block
\* calls close(), it calls it on the engine of the failed attempt, never on a
\* newer engine another request launched in the meantime, and never on a
\* connected engine on which another request has an open context.
C31_ClosesOwnHandleOnly ==
    [][\A r \in Requests :
          (pc[r] = "onceDone" /\ pc'[r] = "wInvClose")
          => /\ invEng'[r] = sess[r].eng
             /\ ~ \E d \in Requests \ {r} :
                     /\ sess[d].eng = invEng'[r]
                     /\ sess[d].ctx = "open"
                     /\ engine[invEng'[r]] = "connected"]_vars


\* C32: a classified navigation failure (name resolution, connection
\* refused, navigation timeout) is never treated as retryable, whatever the
\* text of the URL or host name: when the catch block has run for it, the
\* request has failed with it, no further attempt has started, the request
\* has made no invalidation and close() was called on no engine.
C32_NavigationFailureNotRetried ==
    [][\A r \in Requests :
          (/\ pc[r] = "onceDone"
           /\ pc'[r] # "onceDone"
           /\ ~sess[r].outcome.ok
           /\ sess[r].outcome.err.kind \in {"dns", "refused", "navTimeout"}
           /\ ~exited')
          => /\ pc'[r] = "failed"
             /\ attempt'[r] = attempt[r]
             /\ started'[r] = started[r]
             /\ invCount'[r] = invCount[r]
             /\ invEng'[r] = 0
             /\ \A e \in Engines : engine[e] = "connected" => engine'[e] = "connected"]_vars


\* C33: a render is started for a request only after the rate limiter has
\* admitted it and its cache lookup has missed.  A request that is in the
\* capture pipeline, or has rendered, was admitted and found nothing under
\* its key; a request answered 429 has made no lookup, no render and no
\* store; a request whose lookup hit has made no render and no store.
C33_RenderAfterAdmissionAndMiss ==
    \A r \in Requests :
        /\ (pc[r] \notin {"idle", "wJson", "wRead"} \/ route[r].captures > 0)
           => /\ route[r].admitted
              /\ route[r].lookupAt >= 0
              /\ route[r].found = Absent
        /\ (resp[r].done /\ resp[r].status = 429)
           => /\ pc[r] = "idle"
              /\ ~route[r].admitted
              /\ route[r].lookupAt = -1
              /\ route[r].captures = 0
              /\ ~route[r].saved /\ ~route[r].stored
        /\ route[r].found # Absent
           => /\ pc[r] \in {"idle", "wRead"}
              /\ route[r].captures = 0
              /\ ~route[r].captured
              /\ ~route[r].saved /\ ~route[r].stored

\* The client's budget is used up: a miss that rendered and stored, hits on
\* the stored entry, then a request answered 429
C33_Witness ==
    /\ resp["r1"].done /\ resp["r1"].status = 429
    /\ arrivals = MaxArrivals
    /\ \E k \in Keys : cache[k].has /\ cache[k].data \in files
    /\ issued = 1


\* C34: a failure of the wait step (waitForLoadState or the settle delay) is
\* not fatal: the step after it is page.screenshot, with no failure recorded
\* for the attempt, and the outcome of an attempt whose wait failed is the
\* one capture and validation give: a buffer with the PNG signature, a
\* validation error, or the engine's error from page.screenshot; never the
\* wait's own error.
C34_WaitFailureNotFatal ==
    \A r \in Requests :
        /\ (pc[r] = "wShot" /\ sess[r].waitFailed)
           => sess[r].primary = NoOutcome /\ sess[r].outcome = NoOutcome
        /\ (pc[r] = "onceDone" /\ sess[r].waitFailed)
           => IF sess[r].outcome.ok
              THEN Len(sess[r].outcome.buf) > 0 /\ isValidPng(sess[r].outcome.buf)
              ELSE sess[r].outcome.err \in
                      {EmptyBufferError, InvalidPngError, TargetClosedError, ProtocolError}

\* An attempt whose wait failed and whose screenshot is a valid PNG
C34_Witness ==
    \E r \in Requests :
        /\ pc[r] = "onceDone"
        /\ sess[r].waitFailed
        /\ sess[r].outcome.ok
        /\ isValidPng(sess[r].outcome.buf)


C36_CaptureTerminates ==
    \A r \in Requests :
        (pc[r] \notin {"idle", "done", "failed"}) ~> (pc[r] \in {"done", "failed"})

\* Both captures have ended, one with its buffer after a retry, the other
\* with an error after its last attempt
C36_Witness ==
    /\ pc["r1"] = "done" /\ started["r1"] = 2
    /\ pc["r2"] = "failed" /\ started["r2"] = maxRetries + 1


\* C37: a denied request records no timestamp and an admission check by
\* itself leaves the client's stored window as it was, so requests made
\* while a client is denied never postpone the instant from which it is
\* allowed again: after a denied run the client's stored list is the list
\* the run found, and with it the first instant at which a check allows.
C37_DeniedLeavesWindow ==
    LET Count(ts, t) == Len(SelectSeq(ts, LAMBDA x : x > t - windowMs))
        AllowedFrom(ts, t) ==
            CHOOSE u \in t..(t + windowMs) :
                /\ Count(ts, u) < maxRequests
                /\ \A v \in t..(u - 1) : Count(ts, v) >= maxRequests
    IN (lastRL.done /\ ~lastRL.allowed) =>
          /\ lastRL.recordedAt = -1
          /\ rateLimitStore[lastRL.ip] = lastRL.stored
          /\ AllowedFrom(rateLimitStore[lastRL.ip], lastRL.at)
                = AllowedFrom(lastRL.stored, lastRL.at)
          /\ AllowedFrom(lastRL.stored, lastRL.at) > lastRL.at

\* A client denied twice in a row with its budget of timestamps stored
C37_Witness ==
    /\ lastRL.done /\ ~lastRL.allowed
    /\ lastRL.prev.done /\ ~lastRL.prev.recorded
    /\ Len(rateLimitStore[lastRL.ip]) = maxRequests
    /\ lastRL.status = 429


\* C38: every request to POST /screenshot that is admitted records exactly
\* one timestamp, in the step of its admission check and before its body is
\* validated and the cache is looked up; nothing that happens to the request
\* afterwards (a validation failure, a cache hit, a failed render) changes
\* the client's stored timestamps, so the request has used one unit of the
\* budget whatever its end.
C38_AdmittedRecordsOnce ==
    [][LET Arrives(r) == pc[r] = "idle" /\ arrivals' = arrivals + 1 /\ route'[r].ip # "none"
       IN /\ \A r \in Requests :
                (Arrives(r) /\ route'[r].admitted) =>
                   LET ip == route'[r].ip
                       kept == SelectSeq(rateLimitStore[ip], LAMBDA ts : ts > now' - windowMs)
                   IN /\ Len(kept) < maxRequests
                      /\ Len(rateLimitStore'[ip]) = Len(kept) + 1
                      /\ SubSeq(rateLimitStore'[ip], 1, Len(kept)) = kept
                      /\ rateLimitStore'[ip][Len(kept) + 1] = now'
                      /\ pc'[r] = "wJson"
                      /\ ~route'[r].valid
                      /\ route'[r].lookupAt = -1
                      /\ lastGet' = lastGet
          /\ (\A r \in Requests : ~(Arrives(r) /\ route'[r].admitted))
                => rateLimitStore' = rateLimitStore]_vars

\* Two requests were admitted and two timestamps are stored, though the
\* second failed validation and the first stored nothing either
C38_Witness ==
    /\ arrivals = 2
    /\ Len(rateLimitStore["ip1"]) = 2
    /\ resp["r1"].done /\ resp["r1"].code = "VALIDATION_ERROR"
    /\ issued = 0
    /\ \A k \in Keys : ~cache[k].has


\* C39: in every reachable state every artifact id held in a cache entry
\* names an artifact whose image file has been written: a request puts its
\* metadata in the cache only after its write to storage has succeeded.
C39_CachedArtifactIsStored ==
    /\ \A k \in Keys : cache[k].has => cache[k].data \in files
    /\ \A r \in Requests : route[r].stored => route[r].saved /\ route[r].id \in files

\* A write that failed: the request is answered with an error, its id is in
\* no cache entry, and the entry an earlier request stored is still backed
\* by its file
C39_Witness ==
    /\ route["r1"].captured /\ ~route["r1"].saved /\ resp["r1"].done
    /\ \A k \in Keys : cache[k].data # route["r1"].id
    /\ \E k \in Keys : cache[k].has /\ cache[k].data \in files

\* C40: when shutdown() ran while an engine launch was in flight or while
\* capture requests were running, then once it has completed (the process
\* has exited, and with it every operation that was in flight) no engine is
\* left running: every engine that was started is down, or close() has been
\* called on it.
C40_NoEngineAfterShutdown ==
    exited => \A e \in Engines : engine[e] \notin {"launching", "connected"}

====
